---- MODULE Spec2Model ----
(***************************************************************************)
(* Drive abstraction and transfer engine of WebDavClient.                  *)
(*                                                                         *)
(*   Spec      one orchestrated request (NativeAPI.crossDriveTransfer,     *)
(*             NativeAPI.uploadFiles or POST /api/transfer) running        *)
(*             against the native plug-in (WebDavPlugin.upload/download/   *)
(*             cancel) and NativeAPI.cancelTask.                           *)
(*   SpecPath  resolveSafePath and the local-drive branches of the server  *)
(*             endpoints, over request paths built character by character. *)
(*   SpecDrives, SpecRange, SpecRaw, SpecTree, SpecServe, SpecPool,        *)
(*   SpecEvents, SpecService, SpecFiles, SpecPut: the drive registry, the  *)
(*   embedded range server, the /api/raw proxy, the file requests on one   *)
(*   drive, the upload listener, the foreground service and the file       *)
(*   endpoints of the server; each is introduced where it is defined.      *)
(***************************************************************************)
EXTENDS Integers, Sequences, FiniteSets, TLC

(***************************************************************************)
(* Bounds of the model.                                                    *)
(***************************************************************************)
NumItems == 2        \* items of one request
NumChildren == 1     \* files below an item that is a directory
ChunksPerFile == 2   \* 64 KiB buffers one file is streamed in

TopItems == 1 .. NumItems
Nodes == 1 .. (NumItems * (1 + NumChildren))
NoId == 0

\* children (files) of the directory item d, in listing order
ChildSeq(d) == [c \in 1 .. NumChildren |-> NumItems + (d - 1) * NumChildren + c]
ChildrenOf(d) == { ChildSeq(d)[c] : c \in 1 .. NumChildren }
ParentOf(n) == IF n \in TopItems THEN n ELSE CHOOSE d \in TopItems : n \in ChildrenOf(d)

\* items[i].id: App.jsx passes the task id of a top-level item; the children
\* of a directory are mapped to { path, id: null }
taskId(n) == IF n \in TopItems THEN n ELSE NoId
\* taskId || `transfer_${Date.now()}_${i}`: a generated id is unique to its node
transferId(n) == n

Absent == 0 - 1   \* the file does not exist
Terminal == {"Done", "Error", "Cancelled"}

VARIABLES
    kind,          \* "transfer" | "upload" | "server": the request that runs
    srcLocal,      \* sourceDriveId === 'local'
    dstLocal,      \* destDriveId === 'local'
    isMove,        \* the request's isMove / move parameter
    isDir,         \* [TopItems -> BOOLEAN]: stat.type === 'directory'
    frames,        \* stack of running invocations: items, loop index i, isMove
    pc,            \* position of the innermost invocation
    exc,           \* exception being thrown: "none" | "io" | "ref" | "cancel"
    result,        \* "running" | "resolved" | "rejected": the request's promise
    cancelled,     \* cancellationMap: task ids with { cancelled: true }
    cancelQ,       \* WebDavNative.cancel calls issued and not yet executed
    activeCalls,   \* WebDavPlugin.activeCalls: ids with a registered okhttp Call
    nat,           \* [Nodes -> stream state]: pc, op, late, why (it was rejected)
    srcExists,     \* [Nodes -> BOOLEAN]: the source file still exists
    dst,           \* [Nodes -> Absent .. ChunksPerFile]: chunks at the destination
    tmp,           \* [Nodes -> Absent .. ChunksPerFile]: chunks in the staging file
    dstDir,        \* [TopItems -> BOOLEAN]: destination directory created
    outcome,       \* [Nodes -> "Pending" | "Active" | "Done" | "Error" | "Cancelled"]
    touched,       \* [Nodes -> BOOLEAN]: a stat, read, write or delete was issued
    turnCancelled, \* [Nodes -> BOOLEAN]: token already cancelled at the item's turn
    lateWrites,    \* [Nodes -> Nat]: chunks whose loop turn began after cancelTask had run
    midCancel,     \* [Nodes -> BOOLEAN]: cancelTask hit while the stream to WebDAV ran
    dstDelete,     \* [Nodes -> BOOLEAN]: a DELETE was issued for the destination object
    ioCaught,      \* [Nodes -> BOOLEAN]: the item failed and its token was not cancelled
    completions,   \* [Nodes -> Nat]: onItemComplete calls
    reqPath,       \* request path typed so far (sequence of characters)
    reqArg,        \* second parameter of the request: newName, destination, destPath
    pathOp,        \* last server endpoint run on reqPath, "none" before
    pathOk,        \* the endpoint did not throw
    pathTouched,   \* absolute local paths the endpoint read, created or deleted
    platform,      \* "server" (Express, drives.json) | "native" (Capacitor Preferences)
    drives,        \* the persisted drive list
    slots,         \* requests on the registry that have read the list and not yet written
    nextId,        \* next value crypto.randomUUID / crypto.randomBytes yields
    started,       \* registry requests received so far
    resp,          \* the last response of a registry operation
    accepted,      \* ids of the drives whose add was answered with success
    removed,       \* ids whose remove was answered with success
    fileLength,    \* file.length() of the file the range server is asked for, Absent if none
    rangeResp,     \* the last request to the range server and its response
    rawResp,       \* the last /api/raw request on a WebDAV drive and its response
    backend,       \* the API in use and the kind of drive the file requests address
    tree,          \* the drive's files and directories: path -> "dir" or the file's content
    treeResp,      \* the last listing, mkdir or move on the drive and its result
    served,        \* the last request to the range server by path, and what it touched
    held,          \* workers of the range server's pool blocked on clients that stalled
    queue,         \* connections accepted and waiting for a worker, in order
    conn,          \* the range requests followed: state, window and bytes received
    uploadCallbacks, \* keys of the uploadCallbacks map: ids with a registered callback
    bridge,        \* uploadProgress events the plug-in has sent and the listener has not yet run for
    upl,           \* [Tasks -> "idle" | "streaming" | "settled" | "ended"]: the upload of a task
    calls,         \* callback invocations so far: <<id of the callback, id of the event>>
    listing,       \* [TopItems -> "none" | "ok" | "failed"]: getFiles of a directory item
    activeTransfers, \* WebDavPlugin.activeTransfers
    service,       \* FileTransferService is running in the foreground
    req,           \* [Requests -> position and native calls made] of the concurrent requests
    store,         \* [StoreIds -> set of file names]: the files each drive holds
    tempDir,       \* the files in os.tmpdir()
    fileReq,       \* the last file request of the server: what was asked, what was done
    put            \* the PUT the range server is handling: Content-Length, bytes left, answer

cfgVars == <<kind, srcLocal, dstLocal, isMove, isDir>>
jsVars == <<frames, pc, exc, result>>
tokVars == <<cancelled, cancelQ>>
fsVars == <<srcExists, dst, tmp, dstDir>>
ghostVars == <<outcome, touched, turnCancelled, lateWrites, midCancel, dstDelete, ioCaught, completions>>
pathVars == <<reqPath, reqArg, pathOp, pathOk, pathTouched>>
drvVars == <<platform, drives, slots, nextId, started, resp, accepted, removed>>
rngVars == <<fileLength, rangeResp>>
extVars == <<rawResp, backend, tree, treeResp, served>>
poolVars == <<held, queue, conn>>
cbVars == <<uploadCallbacks, bridge, upl, calls>>
fgVars == <<activeTransfers, service, req>>
fileVars == <<store, tempDir, fileReq>>
svcRest == <<poolVars, cbVars, fgVars, fileVars, put>>
svcVars == <<svcRest, listing>>
nonSvcVars == <<cfgVars, jsVars, tokVars, activeCalls, nat, fsVars, ghostVars, pathVars,
                drvVars, rngVars, extVars>>
nonPoolVars == <<nonSvcVars, cbVars, fgVars, fileVars, put, listing>>
nonCbVars == <<nonSvcVars, poolVars, fgVars, fileVars, put, listing>>
nonFgVars == <<nonSvcVars, poolVars, cbVars, fileVars, put, listing>>
nonPutVars == <<cfgVars, jsVars, tokVars, activeCalls, nat, fsVars, ghostVars, pathVars,
                drvVars, rangeResp, extVars, poolVars, cbVars, fgVars, fileVars, listing>>
nonFileVars == <<cfgVars, jsVars, tokVars, activeCalls, nat, fsVars, ghostVars, pathVars,
                 rngVars, extVars, poolVars, cbVars, fgVars, put, listing>>
vars == <<cfgVars, jsVars, tokVars, activeCalls, nat, fsVars, ghostVars, pathVars,
          drvVars, rngVars, extVars, svcVars>>

(***************************************************************************)
(* The running invocation.                                                 *)
(***************************************************************************)
cur == frames[Len(frames)]
atEnd == cur.i > Len(cur.items)
item == cur.items[cur.i]

IdleStream == [pc |-> "none", op |-> "none", late |-> FALSE, why |-> "none"]
InFlight(n) == nat[n].pc \in {"called", "registered", "write"}

\* the file a stream writes: the staging file for the first leg of
\* WebDAV -> WebDAV, the destination otherwise
WritesTmp(n) == nat[n].op = "tmpdown"
Target(n) == IF WritesTmp(n) THEN tmp[n] ELSE dst[n]

SetFrame(f) == [frames EXCEPT ![Len(frames)] = f]
Advance == SetFrame([cur EXCEPT !.i = cur.i + 1])

TokenSet(n) == taskId(n) # NoId /\ taskId(n) \in cancelled
\* cancelTask(taskId) has run to its end: token set, WebDavNative.cancel executed
CancelDone(n) == TokenSet(n) /\ taskId(n) \notin cancelQ

(***************************************************************************)
(* NativeAPI.cancelTask and WebDavPlugin.cancel.                           *)
(***************************************************************************)
\* cancelTask(taskId): the token is set synchronously, the plug-in call is
\* queued behind the bridge.  One cancel per task, while the task has not
\* ended (the token of an ended task is not read again).
CancelTask(t) ==
    /\ kind \in {"transfer", "upload"}
    /\ result = "running"
    /\ t \notin cancelled
    /\ outcome[t] \notin Terminal
    /\ cancelled' = cancelled \cup {t}
    /\ cancelQ' = cancelQ \cup {t}
    /\ midCancel' = [midCancel EXCEPT ![t] =
                        nat[t].pc \in {"registered", "write"}
                        /\ nat[t].op \in {"up", "tmpup"}]
    /\ UNCHANGED <<cfgVars, jsVars, activeCalls, nat, fsVars, outcome, touched,
                   turnCancelled, lateWrites, dstDelete, ioCaught, completions,
                   pathVars, drvVars, rngVars, extVars, svcVars>>

\* WebDavPlugin.cancel: Call c = activeCalls.get(id); if found c.cancel() and
\* activeCalls.remove(id); otherwise only a log line.
NativeCancel(t) ==
    /\ t \in cancelQ
    /\ cancelQ' = cancelQ \ {t}
    /\ activeCalls' = activeCalls \ {t}
    /\ UNCHANGED <<cfgVars, jsVars, cancelled, nat, fsVars, ghostVars, pathVars, drvVars, rngVars, extVars, svcVars>>

(***************************************************************************)
(* WebDavPlugin.upload / WebDavPlugin.download: one stream per call.       *)
(***************************************************************************)
\* client.newCall(...); if (callbackId != null) activeCalls.put(callbackId, callObj)
\* download opens FileOutputStream(file), which creates or truncates the file
NativeRegister(n) ==
    /\ nat[n].pc = "called"
    /\ nat' = [nat EXCEPT ![n].pc = "registered"]
    /\ activeCalls' = activeCalls \cup {transferId(n)}
    /\ IF nat[n].op = "tmpdown" THEN tmp' = [tmp EXCEPT ![n] = 0] /\ UNCHANGED dst
       ELSE IF nat[n].op = "down" THEN dst' = [dst EXCEPT ![n] = 0] /\ UNCHANGED tmp
       ELSE UNCHANGED <<dst, tmp>>
    /\ UNCHANGED <<cfgVars, jsVars, tokVars, srcExists, dstDir, ghostVars, pathVars, drvVars, rngVars, extVars, svcVars>>

\* call.resolve() or call.reject(...), the finally block
\* (activeCalls.remove(id); endTransfer()) and, for a failed download, the
\* catch block that deletes the partial file before call.reject
NativeSettle(n, why) ==
    /\ nat' = [nat EXCEPT ![n].pc = IF why = "none" THEN "resolved" ELSE "rejected",
                          ![n].why = why]
    /\ activeCalls' = activeCalls \ {transferId(n)}
    /\ IF why # "none" /\ nat[n].op = "tmpdown"
         THEN tmp' = [tmp EXCEPT ![n] = Absent] /\ UNCHANGED dst
         ELSE IF why # "none" /\ nat[n].op = "down"
                THEN dst' = [dst EXCEPT ![n] = Absent] /\ UNCHANGED tmp
                ELSE UNCHANGED <<dst, tmp>>

\* one turn of while ((read = in.read(buffer)) != -1).  Before a chunk is
\* written the loop checks activeCalls.containsKey(callbackId) and throws
\* IOException("Cancelled") when the id is gone.  At end of file a download
\* resolves; an upload waits for the response, which a call cancelled by
\* WebDavPlugin.cancel never delivers.
NativeCheck(n) ==
    /\ nat[n].pc = "registered"
    /\ nat[n].op \in {"up", "tmpup", "down", "tmpdown"}
    /\ IF Target(n) = ChunksPerFile
         THEN IF nat[n].op \in {"up", "tmpup"} /\ transferId(n) \notin activeCalls
                THEN NativeSettle(n, "cancel")
                ELSE NativeSettle(n, "none")
         ELSE IF transferId(n) \notin activeCalls
                THEN NativeSettle(n, "cancel")
                ELSE /\ nat' = [nat EXCEPT ![n].pc = "write", ![n].late = CancelDone(n)]
                     /\ UNCHANGED <<activeCalls, dst, tmp>>
    /\ UNCHANGED <<cfgVars, jsVars, tokVars, srcExists, dstDir, ghostVars, pathVars, drvVars, rngVars, extVars, svcVars>>

\* sink.write(buffer, 0, read) / out.write(buffer, 0, read): the chunk in flight
NativeWrite(n) ==
    /\ nat[n].pc = "write"
    /\ nat[n].op \in {"up", "tmpup", "down", "tmpdown"}
    /\ nat' = [nat EXCEPT ![n].pc = "registered", ![n].late = FALSE]
    /\ IF WritesTmp(n)
         THEN tmp' = [tmp EXCEPT ![n] = tmp[n] + 1] /\ UNCHANGED <<dst, lateWrites>>
         ELSE /\ dst' = [dst EXCEPT ![n] = (IF dst[n] = Absent THEN 0 ELSE dst[n]) + 1]
              /\ lateWrites' = [lateWrites EXCEPT ![n] =
                                   IF nat[n].late THEN lateWrites[n] + 1 ELSE lateWrites[n]]
              /\ UNCHANGED tmp
    /\ UNCHANGED <<cfgVars, jsVars, tokVars, activeCalls, srcExists, dstDir, outcome,
                   touched, turnCancelled, midCancel, dstDelete, ioCaught,
                   completions, pathVars, drvVars, rngVars, extVars, svcVars>>

\* the network or the server fails the call: IOException out of execute(), or
\* a response that is not successful
NativeFail(n) ==
    /\ nat[n].pc = "registered"
    /\ nat[n].op \in {"up", "tmpup", "down", "tmpdown"}
    /\ NativeSettle(n, "io")
    /\ UNCHANGED <<cfgVars, jsVars, tokVars, srcExists, dstDir, ghostVars, pathVars, drvVars, rngVars, extVars, svcVars>>

(***************************************************************************)
(* NativeAPI.crossDriveTransfer.                                           *)
(***************************************************************************)
\* (variant: the stream is started and not awaited)
SettledNoAwait(n) == nat[n].pc # "none"

\* the promise of the stream the invocation awaits has settled
Settled(n) == nat[n].pc \in {"resolved", "rejected"}

Mark(f, n, v) == [f EXCEPT ![n] = v]

\* for (let i = 0; i < items.length; i++): the token check before an item
\* starts; a cancelled item is skipped with onProgress(i + 1, ..., 0, 0, 0)
LoopHead ==
    /\ kind = "transfer" /\ result = "running" /\ pc = "loop"
    /\ IF atEnd
         THEN /\ pc' = "finally"
              /\ UNCHANGED <<frames, outcome, turnCancelled>>
         ELSE IF TokenSet(item)
                THEN /\ frames' = Advance
                     /\ outcome' = Mark(outcome, item, "Cancelled")
                     /\ turnCancelled' = Mark(turnCancelled, item, TRUE)
                     /\ pc' = "loop"
                ELSE /\ pc' = "stat"
                     /\ UNCHANGED <<frames, outcome, turnCancelled>>
    /\ UNCHANGED <<cfgVars, exc, result, tokVars, activeCalls, nat, fsVars, touched,
                   lateWrites, midCancel, dstDelete, ioCaught, completions,
                   pathVars, drvVars, rngVars, extVars, svcVars>>

\* Filesystem.stat / client.stat decides between the directory branch and the
\* per-file strategies
Stat ==
    /\ kind = "transfer" /\ pc = "stat"
    /\ touched' = Mark(touched, item, TRUE)
    /\ outcome' = Mark(outcome, item, "Active")
    /\ pc' = IF item \in TopItems /\ isDir[item] THEN "mkdir" ELSE "file"
    /\ UNCHANGED <<cfgVars, frames, exc, result, tokVars, activeCalls, nat, fsVars,
                   turnCancelled, lateWrites, midCancel, dstDelete,
                   ioCaught, completions, pathVars, drvVars, rngVars, extVars, svcVars>>

\* (variant: the children are transferred in the mode of the request)
ChildMoveInherited(move) == move

\* the isMove argument of the recursive call: false
ChildMove(move) == FALSE

\* NativeAPI.getFiles(itemPath, sourceDriveId): on the local drive every
\* error of Filesystem.readdir and of the listDirectory fallback is caught
\* and the list stays as it was declared, []; on a WebDAV drive the error
\* of getDirectoryContents is thrown
getFiles(d, listed) == IF listed THEN ChildSeq(d) ELSE <<>>
ListingThrows(listed) == ~listed /\ ~srcLocal

\* directory: createFolder(newDestPath), getFiles(itemPath), then the recursive
\* call over { path: c.path, id: null } with isMove = false.  The branch is
\* outside the try of the item: an error leaves through the finally.
Recurse(listed) ==
    /\ kind = "transfer" /\ pc = "mkdir"
    /\ dstDir' = Mark(dstDir, item, TRUE)
    /\ listing' = [listing EXCEPT ![item] = IF listed THEN "ok" ELSE "failed"]
    /\ IF ListingThrows(listed)
         THEN /\ exc' = "io"
              /\ outcome' = Mark(outcome, item, "Error")
              /\ ioCaught' = Mark(ioCaught, item, ~TokenSet(item))
              /\ pc' = "finally"
              /\ UNCHANGED frames
         ELSE /\ frames' = Append(frames, [items |-> getFiles(item, listed), i |-> 1,
                                           move |-> ChildMove(cur.move)])
              /\ pc' = "loop"
              /\ UNCHANGED <<exc, outcome, ioCaught>>
    /\ UNCHANGED <<cfgVars, result, tokVars, activeCalls, nat, srcExists, dst, tmp,
                   touched, turnCancelled, lateWrites, midCancel, dstDelete, completions,
                   pathVars, drvVars, rngVars, extVars, svcRest>>

\* after the recursion: if (isMove) deleteItems([itemPath]); onItemComplete
DirFinish ==
    /\ kind = "transfer" /\ pc = "afterRecurse"
    /\ srcExists' = IF cur.move
                      THEN [n \in Nodes |-> srcExists[n] /\ n # item /\ n \notin ChildrenOf(item)]
                      ELSE srcExists
    /\ outcome' = Mark(outcome, item, "Done")
    /\ completions' = Mark(completions, item, completions[item] + 1)
    /\ frames' = Advance
    /\ pc' = "loop"
    /\ UNCHANGED <<cfgVars, exc, result, tokVars, activeCalls, nat, dst, tmp, dstDir,
                   touched, turnCancelled, lateWrites, midCancel, dstDelete,
                   ioCaught, pathVars, drvVars, rngVars, extVars, svcVars>>

\* the finally block of the invocation: wait 500 ms, stopBackgroundWork,
\* cancelNotify; then the promise settles or the recursive call returns into
\* the directory branch, which is outside the per-item try
Finally ==
    /\ kind = "transfer" /\ pc = "finally"
    /\ IF Len(frames) = 1
         THEN /\ result' = IF exc = "none" THEN "resolved" ELSE "rejected"
              /\ pc' = "done"
              /\ UNCHANGED <<frames, outcome>>
         ELSE /\ frames' = SubSeq(frames, 1, Len(frames) - 1)
              /\ pc' = IF exc = "none" THEN "afterRecurse" ELSE "finally"
              /\ outcome' = IF exc = "none" THEN outcome
                            ELSE Mark(outcome, frames[Len(frames) - 1].items[frames[Len(frames) - 1].i], "Error")
              /\ UNCHANGED result
    /\ UNCHANGED <<cfgVars, exc, tokVars, activeCalls, nat, fsVars, touched,
                   turnCancelled, lateWrites, midCancel, dstDelete,
                   ioCaught, completions, pathVars, drvVars, rngVars, extVars, svcVars>>

Call(n, op) == [nat EXCEPT ![n] = [pc |-> "called", op |-> op, late |-> FALSE, why |-> "none"]]

\* Local -> Local: Filesystem.copy, no stream through the engine and no source
\* delete ("this block is ONLY for Copy")
LocalCopy(ok) ==
    /\ kind = "transfer" /\ pc = "file"
    /\ srcLocal /\ dstLocal
    /\ IF ok
         THEN /\ dst' = Mark(dst, item, ChunksPerFile)
              /\ pc' = "complete"
              /\ UNCHANGED nat
         ELSE /\ nat' = [nat EXCEPT ![item] = [pc |-> "rejected", op |-> "copy",
                                                late |-> FALSE, why |-> "io"]]
              /\ pc' = "catch"
              /\ UNCHANGED dst
    /\ UNCHANGED <<cfgVars, frames, exc, result, tokVars, activeCalls, srcExists, tmp,
                   dstDir, ghostVars, pathVars, drvVars, rngVars, extVars, svcVars>>

\* Local -> WebDAV: client.streamUploadFile(targetPath, itemPath, transferId)
\* WebDAV -> Local: client.streamDownloadFile(itemPath, targetPath, transferId)
\* WebDAV -> WebDAV: createFolder('/.WebDavClientTemp'), then
\*                   srcClient.streamDownloadFile(itemPath, localTempPath, downloadId)
StartStream ==
    /\ kind = "transfer" /\ pc = "file"
    /\ ~(srcLocal /\ dstLocal)
    /\ IF srcLocal THEN nat' = Call(item, "up") /\ pc' = "awaitStream"
       ELSE IF dstLocal THEN nat' = Call(item, "down") /\ pc' = "awaitStream"
       ELSE nat' = Call(item, "tmpdown") /\ pc' = "awaitTmpDown"
    /\ UNCHANGED <<cfgVars, frames, exc, result, tokVars, activeCalls, fsVars,
                   ghostVars, pathVars, drvVars, rngVars, extVars, svcVars>>

\* (variant: the source is kept in Move mode)
AfterWriteKeepsSource(move) == "complete"

\* after the destination write has resolved: if (isMove) delete the source
AfterWrite(move) == IF move THEN "delSrc" ELSE "complete"

\* (variant: the staging file is left behind)
StagingKept(n) == tmp[n]

\* Filesystem.deleteFile(localTempPath) in the finally of the upload leg
StagingAfterUpload(n) == Absent

\* await ...; finally { delete uploadCallbacks[transferId] / downloadListener.remove() }
StreamReturn ==
    /\ kind = "transfer" /\ pc = "awaitStream"
    /\ Settled(item)
    /\ pc' = IF nat[item].pc = "rejected" THEN "catch" ELSE AfterWrite(cur.move)
    /\ UNCHANGED <<cfgVars, frames, exc, result, tokVars, activeCalls, nat, fsVars,
                   ghostVars, pathVars, drvVars, rngVars, extVars, svcVars>>

\* after the download leg: if (cancellationMap[transferId]?.cancelled) throw new
\* Error("Cancelled"), before the try/finally that removes the staging file;
\* otherwise dstClient.streamUploadFile(targetPath, localTempPath, uploadId)
TmpDownloadReturn ==
    /\ kind = "transfer" /\ pc = "awaitTmpDown"
    /\ Settled(item)
    /\ IF nat[item].pc = "rejected"
         THEN pc' = "catch" /\ UNCHANGED nat
         ELSE IF transferId(item) \in cancelled
                THEN /\ nat' = [nat EXCEPT ![item].pc = "rejected", ![item].why = "cancel"]
                     /\ pc' = "catch"
                ELSE /\ nat' = Call(item, "tmpup")
                     /\ pc' = "awaitTmpUp"
    /\ UNCHANGED <<cfgVars, frames, exc, result, tokVars, activeCalls, fsVars,
                   ghostVars, pathVars, drvVars, rngVars, extVars, svcVars>>

\* finally { delete uploadCallbacks[uploadId]; Filesystem.deleteFile(localTempPath) }
TmpUploadReturn ==
    /\ kind = "transfer" /\ pc = "awaitTmpUp"
    /\ Settled(item)
    /\ tmp' = Mark(tmp, item, StagingAfterUpload(item))
    /\ pc' = IF nat[item].pc = "rejected" THEN "catch" ELSE AfterWrite(cur.move)
    /\ UNCHANGED <<cfgVars, frames, exc, result, tokVars, activeCalls, nat, srcExists,
                   dst, dstDir, ghostVars, pathVars, drvVars, rngVars, extVars, svcVars>>

\* if (isMove) Filesystem.deleteFile(itemPath) / client.deleteFile(itemPath)
DeleteSource ==
    /\ kind = "transfer" /\ pc = "delSrc"
    /\ srcExists' = Mark(srcExists, item, FALSE)
    /\ pc' = "complete"
    /\ UNCHANGED <<cfgVars, frames, exc, result, tokVars, activeCalls, nat, dst, tmp,
                   dstDir, ghostVars, pathVars, drvVars, rngVars, extVars, svcVars>>

\* the onItemComplete parameter of the running invocation: the recursive call
\* of the directory branch is made without one
HasItemCallback == Len(frames) = 1

\* if (onItemComplete) onItemComplete(itemName)
Complete ==
    /\ kind = "transfer" /\ pc = "complete"
    /\ outcome' = Mark(outcome, item, "Done")
    /\ completions' = IF HasItemCallback THEN Mark(completions, item, completions[item] + 1)
                      ELSE completions
    /\ frames' = Advance
    /\ pc' = "loop"
    /\ UNCHANGED <<cfgVars, exc, result, tokVars, activeCalls, nat, fsVars, touched,
                   turnCancelled, lateWrites, midCancel, dstDelete,
                   ioCaught, pathVars, drvVars, rngVars, extVars, svcVars>>

\* catch (e): else { console.error(...); throw e; } is taken unless
\* taskId && cancellationMap[taskId]?.cancelled
Rethrows(n) == ~TokenSet(n)

\* (variant: the error is recorded and the loop goes on with the next item)
CatchContinue ==
    /\ kind = "transfer" /\ pc = "catch"
    /\ ioCaught' = Mark(ioCaught, item, ~TokenSet(item))
    /\ exc' = "io"
    /\ outcome' = Mark(outcome, item, "Error")
    /\ frames' = Advance
    /\ pc' = "loop"
    /\ UNCHANGED <<cfgVars, result, tokVars, activeCalls, nat, fsVars, touched,
                   turnCancelled, lateWrites, midCancel, dstDelete,
                   completions, pathVars, drvVars, rngVars, extVars, svcVars>>

\* the catch block of the per-item try.  In the cancelled branch with a WebDAV
\* destination the first statement reads targetPath, a const declared inside
\* the blocks of the try: a ReferenceError leaves the catch before
\* client.deleteFile is reached.  With a local destination the error is dropped.
Catch ==
    /\ kind = "transfer" /\ pc = "catch"
    /\ ioCaught' = Mark(ioCaught, item, ~TokenSet(item))
    /\ IF Rethrows(item)
         THEN /\ exc' = "io"
              /\ outcome' = Mark(outcome, item, "Error")
              /\ pc' = "finally"
              /\ UNCHANGED frames
         ELSE IF ~dstLocal
                THEN /\ exc' = "ref"
                     /\ outcome' = Mark(outcome, item, "Error")
                     /\ pc' = "finally"
                     /\ UNCHANGED frames
                ELSE /\ outcome' = Mark(outcome, item, "Cancelled")
                     /\ frames' = Advance
                     /\ pc' = "loop"
                     /\ UNCHANGED exc
    /\ UNCHANGED <<cfgVars, result, tokVars, activeCalls, nat, fsVars, touched,
                   turnCancelled, lateWrites, midCancel, dstDelete,
                   completions, pathVars, drvVars, rngVars, extVars, svcVars>>

(***************************************************************************)
(* NativeAPI.uploadFiles.                                                  *)
(***************************************************************************)
\* WebDAV drive: for (let i = 0; i < files.length; i++) with the token check
UpLoopHead ==
    /\ kind = "upload" /\ result = "running" /\ pc = "loop"
    /\ ~dstLocal
    /\ IF atEnd
         THEN /\ pc' = "finally"
              /\ UNCHANGED <<frames, outcome, turnCancelled>>
         ELSE IF TokenSet(item)
                THEN /\ frames' = Advance
                     /\ outcome' = Mark(outcome, item, "Cancelled")
                     /\ turnCancelled' = Mark(turnCancelled, item, TRUE)
                     /\ pc' = "loop"
                ELSE /\ pc' = "saveTemp"
                     /\ UNCHANGED <<frames, outcome, turnCancelled>>
    /\ UNCHANGED <<cfgVars, exc, result, tokVars, activeCalls, nat, fsVars, touched,
                   lateWrites, midCancel, dstDelete, ioCaught, completions,
                   pathVars, drvVars, rngVars, extVars, svcVars>>

\* temp = await saveToTemp(file); client.streamUploadFile(remotePath, temp.path, uploadId)
UpStart ==
    /\ kind = "upload" /\ pc = "saveTemp"
    /\ tmp' = Mark(tmp, item, ChunksPerFile)
    /\ touched' = Mark(touched, item, TRUE)
    /\ outcome' = Mark(outcome, item, "Active")
    /\ nat' = Call(item, "tmpup")
    /\ pc' = "awaitUpload"
    /\ UNCHANGED <<cfgVars, frames, exc, result, tokVars, activeCalls, srcExists, dst,
                   dstDir, turnCancelled, lateWrites, midCancel, dstDelete,
                   ioCaught, completions, pathVars, drvVars, rngVars, extVars, svcVars>>

\* the continuation of the upload and the catch block.  The cancelled branch
\* starts by reading remotePath, a const of the try block: the ReferenceError
\* leaves the catch before client.deleteFile(remotePath).
UpReturn ==
    /\ kind = "upload" /\ pc = "awaitUpload"
    /\ Settled(item)
    /\ IF nat[item].pc # "rejected"
         THEN /\ outcome' = Mark(outcome, item, "Done")
              /\ completions' = Mark(completions, item, completions[item] + 1)
              /\ UNCHANGED <<exc, ioCaught>>
         ELSE /\ ioCaught' = Mark(ioCaught, item, ~TokenSet(item))
              /\ exc' = IF Rethrows(item) THEN "io" ELSE "ref"
              /\ outcome' = Mark(outcome, item, "Error")
              /\ UNCHANGED completions
    /\ pc' = "itemFinally"
    /\ UNCHANGED <<cfgVars, frames, result, tokVars, activeCalls, nat, fsVars, touched,
                   turnCancelled, lateWrites, midCancel, dstDelete, pathVars, drvVars, rngVars, extVars, svcVars>>

\* finally { wait 2 s; delete uploadCallbacks[uploadId]; if (temp) await temp.cleanup() }
UpItemFinally ==
    /\ kind = "upload" /\ pc = "itemFinally"
    /\ tmp' = Mark(tmp, item, Absent)
    /\ IF exc = "none"
         THEN frames' = Advance /\ pc' = "loop"
         ELSE pc' = "finally" /\ UNCHANGED frames
    /\ UNCHANGED <<cfgVars, exc, result, tokVars, activeCalls, nat, srcExists, dst,
                   dstDir, ghostVars, pathVars, drvVars, rngVars, extVars, svcVars>>

\* local drive: the loop has no token check
UpLocalHead ==
    /\ kind = "upload" /\ result = "running" /\ pc = "loop"
    /\ dstLocal
    /\ IF atEnd
         THEN pc' = "finally" /\ UNCHANGED <<outcome, turnCancelled>>
         ELSE /\ pc' = "localWrite"
              /\ outcome' = Mark(outcome, item, "Active")
              /\ turnCancelled' = Mark(turnCancelled, item, TokenSet(item))
    /\ UNCHANGED <<cfgVars, frames, exc, result, tokVars, activeCalls, nat, fsVars,
                   touched, lateWrites, midCancel, dstDelete, ioCaught,
                   completions, pathVars, drvVars, rngVars, extVars, svcVars>>

\* while (offset < file.size): Filesystem.writeFile / appendFile of one chunk;
\* a failure is rethrown by catch (e) { console.error(...); throw e; }
UpLocalWrite(ok) ==
    /\ kind = "upload" /\ pc = "localWrite"
    /\ touched' = Mark(touched, item, TRUE)
    /\ IF ~ok
         THEN /\ exc' = "io"
              /\ ioCaught' = Mark(ioCaught, item, ~TokenSet(item))
              /\ outcome' = Mark(outcome, item, "Error")
              /\ pc' = "finally"
              /\ UNCHANGED <<dst, lateWrites, frames, completions>>
         ELSE /\ dst' = Mark(dst, item, (IF dst[item] = Absent THEN 0 ELSE dst[item]) + 1)
              /\ lateWrites' = Mark(lateWrites, item,
                                    IF CancelDone(item) THEN lateWrites[item] + 1
                                    ELSE lateWrites[item])
              /\ IF dst'[item] = ChunksPerFile
                   THEN /\ outcome' = Mark(outcome, item, "Done")
                        /\ completions' = Mark(completions, item, completions[item] + 1)
                        /\ frames' = Advance
                        /\ pc' = "loop"
                   ELSE UNCHANGED <<outcome, completions, frames, pc>>
              /\ UNCHANGED <<exc, ioCaught>>
    /\ UNCHANGED <<cfgVars, result, tokVars, activeCalls, nat, srcExists, tmp, dstDir,
                   turnCancelled, midCancel, dstDelete, pathVars, drvVars, rngVars, extVars, svcVars>>

\* finally { stopBackgroundWork(); cancelNotify(NOTIFY_ID) }
UpFinally ==
    /\ kind = "upload" /\ pc = "finally"
    /\ result' = IF exc = "none" THEN "resolved" ELSE "rejected"
    /\ pc' = "done"
    /\ UNCHANGED <<cfgVars, frames, exc, tokVars, activeCalls, nat, fsVars, ghostVars,
                   pathVars, drvVars, rngVars, extVars, svcVars>>

(***************************************************************************)
(* POST /api/transfer.                                                     *)
(***************************************************************************)
\* for (const itemPath of items): a missing local source is skipped; otherwise
\* the read stream is opened and, for a local destination, createWriteStream
\* creates the file; after the loop res.json({ success: true })
SrvLoop ==
    /\ kind = "server" /\ result = "running" /\ pc = "loop"
    /\ IF atEnd
         THEN /\ result' = "resolved"
              /\ pc' = "done"
              /\ UNCHANGED <<frames, nat, dst, touched, outcome>>
         ELSE /\ touched' = Mark(touched, item, TRUE)
              /\ IF srcLocal /\ ~srcExists[item]
                   THEN /\ frames' = Advance
                        /\ outcome' = Mark(outcome, item, "Skipped")
                        /\ UNCHANGED <<pc, nat, dst, result>>
                   ELSE /\ nat' = [nat EXCEPT ![item] = [pc |-> "registered", op |-> "pipe",
                                                          late |-> FALSE, why |-> "none"]]
                        /\ dst' = IF dstLocal THEN Mark(dst, item, 0) ELSE dst
                        /\ outcome' = Mark(outcome, item, "Active")
                        /\ pc' = "awaitPipe"
                        /\ UNCHANGED <<frames, result>>
    /\ UNCHANGED <<cfgVars, exc, tokVars, activeCalls, srcExists, tmp, dstDir,
                   turnCancelled, lateWrites, midCancel, dstDelete,
                   ioCaught, completions, pathVars, drvVars, rngVars, extVars, svcVars>>

\* pipeline(readStream, writeStream) / client.putFileContents(targetPath, readStream):
\* one chunk, or the end of the stream
PipeChunk(n) ==
    /\ nat[n].pc = "registered" /\ nat[n].op = "pipe"
    /\ IF dst[n] = ChunksPerFile
         THEN nat' = [nat EXCEPT ![n].pc = "resolved"] /\ UNCHANGED dst
         ELSE dst' = Mark(dst, n, (IF dst[n] = Absent THEN 0 ELSE dst[n]) + 1) /\ UNCHANGED nat
    /\ UNCHANGED <<cfgVars, jsVars, tokVars, activeCalls, srcExists, tmp, dstDir,
                   ghostVars, pathVars, drvVars, rngVars, extVars, svcVars>>

\* a read or write error rejects the pipeline; nothing removes the file
PipeFail(n) ==
    /\ nat[n].pc = "registered" /\ nat[n].op = "pipe"
    /\ nat' = [nat EXCEPT ![n].pc = "rejected", ![n].why = "io"]
    /\ UNCHANGED <<cfgVars, jsVars, tokVars, activeCalls, fsVars, ghostVars, pathVars, drvVars, rngVars, extVars, svcVars>>

\* after the await: if (move) delete the source; on error the catch answers
\* res.status(500).json({ error: err.message })
SrvReturn ==
    /\ kind = "server" /\ pc = "awaitPipe"
    /\ Settled(item)
    /\ IF nat[item].pc = "rejected"
         THEN /\ result' = "rejected"
              /\ exc' = "io"
              /\ ioCaught' = Mark(ioCaught, item, TRUE)
              /\ outcome' = Mark(outcome, item, "Error")
              /\ pc' = "done"
              /\ UNCHANGED <<frames, srcExists>>
         ELSE /\ srcExists' = IF isMove THEN Mark(srcExists, item, FALSE) ELSE srcExists
              /\ outcome' = Mark(outcome, item, "Done")
              /\ frames' = Advance
              /\ pc' = "loop"
              /\ UNCHANGED <<result, exc, ioCaught>>
    /\ UNCHANGED <<cfgVars, tokVars, activeCalls, nat, dst, tmp, dstDir, touched,
                   turnCancelled, lateWrites, midCancel, dstDelete,
                   completions, pathVars, drvVars, rngVars, extVars, svcVars>>

(***************************************************************************)
(* The drive registry and the range server: values and idle states.        *)
(***************************************************************************)
MaxRequests == 2     \* requests on the drive registry in one run
MaxFileLen == 4      \* bytes of the file served by the range server

LocalId == 0         \* id: 'local'; crypto.randomUUID() yields 1, 2, ...
Undef == "undefined"
QuotaNull == "null"
QuotaKnown == "quota"
Slots == {1, 2}

\* a password is absent, a plain string, or a ciphertext made with a key and a
\* random iv (server: iv.toString('hex') + ':' + encrypted.toString('hex'))
NoPassword == [form |-> "absent", key |-> "none", iv |-> 0, text |-> Undef]
Plain(t) == [form |-> "plain", key |-> "none", iv |-> 0, text |-> t]
Cipher(k, iv, t) == [form |-> "cipher", key |-> k, iv |-> iv, text |-> t]

\* SECRET_KEY of the server (random, kept in .secret.key) and of clientCrypto
KeyOf(pf) == IF pf = "server" THEN "secret.key" ELSE "WebDavClient-Mobile-Secure-Key"

LocalDrive(pf) ==
    [id |-> LocalId,
     name |-> IF pf = "server" THEN "Local Storage" ELSE "On My Phone",
     type |-> "local", url |-> Undef, username |-> Undef,
     password |-> NoPassword, quota |-> Undef]

IdleSlot == [pc |-> "idle", op |-> "none", list |-> <<>>, id |-> LocalId, body |-> <<>>]
NoResp == [op |-> "none", id |-> LocalId, status |-> 0, error |-> "none", body |-> <<>>,
           persisted |-> <<>>, probes |-> <<>>]
NoRange == [method |-> "none", hasRange |-> FALSE, rangeStart |-> 0, rangeEnd |-> Absent,
            status |-> 0, contentLength |-> 0, crStart |-> 0, crEnd |-> 0, crTotal |-> 0,
            body |-> <<>>]

\* the registry of a server that has just started, with no request received
DrivesIdle ==
    /\ platform = "server"
    /\ drives = << LocalDrive("server") >>
    /\ slots = [s \in Slots |-> IdleSlot]
    /\ nextId = 1
    /\ started = 0
    /\ resp = NoResp
    /\ accepted = {}
    /\ removed = {}

RangeIdle ==
    /\ fileLength = Absent
    /\ rangeResp = NoRange

\* no header / no value: what an absent header reads as
NoHeader == "none"
NoUpstream == [arrival |-> "none", status |-> 0, hdrKind |-> "none",
               contentRange |-> NoHeader, contentLength |-> NoHeader,
               stream |-> "none", pipe |-> "none"]
NoRaw == [range |-> NoHeader, up |-> NoUpstream, upRange |-> NoHeader, status |-> 0,
          contentRange |-> NoHeader, contentLength |-> NoHeader, piped |-> FALSE]

\* the drive as the file requests find it: two directories, two files of
\* the same name, and a hidden file
InitialTree ==
    (<< "/" >> :> "dir") @@ (<< "/", "a" >> :> "dir") @@ (<< "/", "b" >> :> "dir")
    @@ (<< "/", "a", "/", "x" >> :> "c1") @@ (<< "/", "b", "/", "x" >> :> "c2")
    @@ (<< "/", "a", "/", ".", "h" >> :> "c3")

NoTreeResp == [op |-> "none", path |-> <<>>, items |-> <<>>, destination |-> <<>>,
               ok |-> TRUE, entries |-> {}, before |-> InitialTree]

RawIdle == rawResp = NoRaw

TreeIdle ==
    /\ backend = [platform |-> "server", type |-> "local"]
    /\ tree = InitialTree
    /\ treeResp = NoTreeResp

NoServed == [method |-> "none", cache |-> FALSE, path |-> <<>>, exists |-> FALSE,
             status |-> 0, file |-> <<>>]

ServeIdle == served = NoServed

ExtIdle ==
    /\ RawIdle
    /\ TreeIdle
    /\ ServeIdle

\* Executors.newFixedThreadPool(16): the workers of LocalFileServer
PoolSize == 16
NumConns == 2        \* range requests followed byte by byte
MaxQueue == 2        \* connections waiting for a worker

Conns == 1 .. NumConns
NoConn == [st |-> "none", rangeStart |-> 0, rangeEnd |-> 0, got |-> <<>>]

PoolIdle ==
    /\ held = 0
    /\ queue = <<>>
    /\ conn = [c \in Conns |-> NoConn]

NumTasks == 2        \* upload tasks running at the same time
MaxEvents == 2       \* uploadProgress events on their way to the listener

Tasks == 1 .. NumTasks

CallbacksIdle ==
    /\ uploadCallbacks = {}
    /\ bridge = <<>>
    /\ upl = [t \in Tasks |-> "idle"]
    /\ calls = {}

MaxOps == 2          \* uploads and downloads one request makes

Requests == {1, 2}

ServiceIdle ==
    /\ activeTransfers = 0
    /\ service = FALSE
    /\ req = [r \in Requests |-> [pc |-> "idle", ops |-> 0]]

\* the drives that hold files: the local storage and one WebDAV server
RemoteId == LocalId + 1
StoreIds == {LocalId, RemoteId}
FileNames == {"f", "g"}
NoFileReq == [op |-> "none", drive |-> LocalId, name |-> "none", known |-> TRUE,
              status |-> 0, on |-> LocalId, changed |-> FALSE]

FilesIdle ==
    /\ store = [d \in StoreIds |-> {"f"}]
    /\ tempDir = {}
    /\ fileReq = NoFileReq

MaxBody == 7         \* bytes of the body of a PUT

\* long contentLength = -1: no Content-Length header was read
NoLength == 0 - 1
NoPut == [pc |-> "idle", contentLength |-> NoLength, bytesLeft |-> NoLength,
          status |-> 0, ended |-> "none"]

SvcIdle ==
    /\ PoolIdle
    /\ CallbacksIdle
    /\ ServiceIdle
    /\ FilesIdle
    /\ put = NoPut
    /\ listing = [t \in TopItems |-> "none"]

(***************************************************************************)
(* The transfer specification.                                             *)
(***************************************************************************)
NoFiles == [n \in Nodes |-> Absent]
AllFalse == [n \in Nodes |-> FALSE]
AllZero == [n \in Nodes |-> 0]

PathIdle ==
    /\ reqPath = <<>>
    /\ reqArg = <<>>
    /\ pathOp = "none"
    /\ pathOk = TRUE
    /\ pathTouched = {}

Init ==
    /\ kind \in {"transfer", "upload", "server"}
    /\ srcLocal \in BOOLEAN
    /\ dstLocal \in BOOLEAN
    /\ isMove \in BOOLEAN
    /\ isDir \in [TopItems -> BOOLEAN]
    /\ kind = "upload" => srcLocal /\ ~isMove
    /\ \A t \in TopItems : isDir[t] => kind = "transfer" /\ t = 1
    /\ srcExists \in [Nodes -> BOOLEAN]
    /\ \A n \in Nodes : (kind = "server" /\ srcLocal /\ n \in TopItems) \/ srcExists[n]
    /\ frames = << [items |-> [k \in TopItems |-> k], i |-> 1, move |-> isMove] >>
    /\ pc = "loop"
    /\ exc = "none"
    /\ result = "running"
    /\ cancelled = {}
    /\ cancelQ = {}
    /\ activeCalls = {}
    /\ nat = [n \in Nodes |-> IdleStream]
    /\ dst = NoFiles
    /\ tmp = NoFiles
    /\ dstDir = [t \in TopItems |-> FALSE]
    /\ outcome = [n \in Nodes |-> "Pending"]
    /\ touched = AllFalse
    /\ turnCancelled = AllFalse
    /\ lateWrites = AllZero
    /\ midCancel = AllFalse
    /\ dstDelete = AllFalse
    /\ ioCaught = AllFalse
    /\ completions = AllZero
    /\ PathIdle
    /\ DrivesIdle
    /\ RangeIdle
    /\ ExtIdle
    /\ SvcIdle

Next ==
    \/ \E t \in TopItems : CancelTask(t)
    \/ \E t \in TopItems : NativeCancel(t)
    \/ \E n \in Nodes : NativeRegister(n)
    \/ \E n \in Nodes : NativeCheck(n)
    \/ \E n \in Nodes : NativeWrite(n)
    \/ \E n \in Nodes : NativeFail(n)
    \/ LoopHead
    \/ Stat
    \/ \E listed \in BOOLEAN : Recurse(listed)
    \/ DirFinish
    \/ Finally
    \/ \E ok \in BOOLEAN : LocalCopy(ok)
    \/ StartStream
    \/ StreamReturn
    \/ TmpDownloadReturn
    \/ TmpUploadReturn
    \/ DeleteSource
    \/ Complete
    \/ Catch
    \/ UpLoopHead
    \/ UpStart
    \/ UpReturn
    \/ UpItemFinally
    \/ UpLocalHead
    \/ \E ok \in BOOLEAN : UpLocalWrite(ok)
    \/ UpFinally
    \/ SrvLoop
    \/ \E n \in Nodes : PipeChunk(n)
    \/ \E n \in Nodes : PipeFail(n)
    \/ SrvReturn

Spec == Init /\ [][Next]_vars

(***************************************************************************)
(* Claims about cancellation and the sequencing of items (Spec).           *)
(***************************************************************************)
Returned == result # "running"
Native == kind \in {"transfer", "upload"}

\* C1: when cancelTask sets the token while the task's stream to a WebDAV
\* destination is active and the stream is aborted by it, a DELETE is issued
\* for the partial destination object, the item ends as Cancelled and the
\* request does not reject because of it.
C1_CancelMidStreamCleansUp ==
    \A n \in TopItems :
        (midCancel[n] /\ nat[n].why = "cancel" /\ outcome[n] \in Terminal)
            => (dstDelete[n] /\ outcome[n] = "Cancelled" /\ exc = "none")

\* C2: once cancelTask has run for a task of crossDriveTransfer, no chunk
\* whose loop turn begins afterwards is written to the task's destination,
\* also when the cancel came between the pre-start token check and the
\* registration of the plug-in call in activeCalls.
C2_NoChunkAfterCancel ==
    kind = "transfer" => \A n \in Nodes : lateWrites[n] = 0

\* C3: when a crossDriveTransfer request has returned, every task that was
\* cancelled before it completed still has its source, and no file written
\* for it exists at the destination.
C3_CancelLeavesNoTrace ==
    (kind = "transfer" /\ Returned) =>
        \A t \in TopItems :
            t \in cancelled =>
                /\ srcExists[t]
                /\ dst[t] = Absent
                /\ \A c \in ChildrenOf(t) : srcExists[c] /\ dst[c] = Absent

\* C4: an item whose token is already cancelled when its turn comes is
\* skipped: nothing is read, written or deleted for it, and it ends as
\* Cancelled without failing the request.
C4_CancelledItemSkipped ==
    Native =>
        \A n \in TopItems :
            turnCancelled[n] =>
                ~touched[n] /\ dst[n] = Absent /\ outcome[n] = "Cancelled"

\* item k failed with an error that was caught while its token was not
\* cancelled (for a directory: one of its files did)
Failed(k) == ioCaught[k] \/ \E c \in ChildrenOf(k) : ioCaught[c]

C6_Returned ==
    (Native /\ Returned) =>
        /\ \A t \in TopItems : outcome[t] \in Terminal \cup {"Pending"}
        /\ \A t \in TopItems : outcome[t] = "Done" <=> completions[t] = 1
        /\ result = "resolved" => \A t \in TopItems : outcome[t] \in {"Done", "Cancelled"}
        /\ result = "rejected" =>
              \E k \in TopItems :
                  /\ outcome[k] = "Error"
                  /\ \A j \in TopItems : j < k => outcome[j] \in {"Done", "Cancelled"}
                  /\ \A j \in TopItems : j > k => outcome[j] = "Pending"

C6_Final ==
    \A n \in Nodes : outcome[n] \in Terminal => outcome'[n] = outcome[n]

Started(n) == outcome[n] # "Pending"
Ended(n) == outcome[n] \in Terminal \cup {"Skipped"}

\* C7: within one request at most one item's byte stream is in flight, and an
\* item (or a file of a directory item) starts only after the one before it
\* has ended.
C7_Sequential ==
    /\ \A m, n \in Nodes : (InFlight(m) /\ InFlight(n)) => m = n
    /\ \A j \in TopItems : (j > 1 /\ Started(j)) => Ended(j - 1)
    /\ \A d \in TopItems : \A c \in 2 .. NumChildren :
           Started(ChildSeq(d)[c]) => Ended(ChildSeq(d)[c - 1])

C7_Witness ==
    /\ outcome[1] = "Done"
    /\ InFlight(2)
    /\ dst[2] = 1

(***************************************************************************)
(* Paths of the server (POSIX build of Node's path module).  A path is a   *)
(* sequence of characters.                                                 *)
(***************************************************************************)
MaxPathLen == 6      \* characters of a request path
Chars == {"/", "\\", ".", "u"}
Slash == <<"/">>
Dot == <<".">>
DotDot == <<".", ".">>

\* const STORAGE_DIR = os.homedir()
STORAGE_DIR == <<"/", "u">>

\* String.prototype.startsWith
startsWith(s, prefix) ==
    /\ Len(s) >= Len(prefix)
    /\ SubSeq(s, 1, Len(prefix)) = prefix

\* the segments of a path between its "/" separators, empty ones included
RECURSIVE Segments(_)
Segments(s) ==
    IF s = <<>>
      THEN << <<>> >>
      ELSE LET rest == Segments(Tail(s))
           IN  IF Head(s) = "/"
                 THEN << <<>> >> \o rest
                 ELSE << <<Head(s)>> \o Head(rest) >> \o Tail(rest)

\* segments put together again with "/" between them
RECURSIVE JoinSegs(_)
JoinSegs(segs) ==
    IF segs = <<>> THEN <<>>
    ELSE IF Len(segs) = 1 THEN Head(segs)
    ELSE Head(segs) \o Slash \o JoinSegs(Tail(segs))

\* path.js normalizeString: empty and "." segments are dropped, ".." removes
\* the segment before it unless there is none or it is ".." itself, and is
\* then kept only when allowAboveRoot
RECURSIVE normalizeString(_, _, _)
normalizeString(segs, res, allowAboveRoot) ==
    IF segs = <<>>
      THEN res
      ELSE LET g == Head(segs)
               r == IF g = <<>> \/ g = Dot
                      THEN res
                    ELSE IF g = DotDot
                      THEN IF res # <<>> /\ res[Len(res)] # DotDot
                             THEN SubSeq(res, 1, Len(res) - 1)
                           ELSE IF allowAboveRoot
                             THEN Append(res, DotDot)
                           ELSE res
                    ELSE Append(res, g)
           IN  normalizeString(Tail(segs), r, allowAboveRoot)

\* path.posix.normalize
normalize(p) ==
    IF p = <<>>
      THEN Dot
      ELSE LET isAbsolute == p[1] = "/"
               trailingSeparator == p[Len(p)] = "/"
               n == JoinSegs(normalizeString(Segments(p), <<>>, ~isAbsolute))
           IN  IF n = <<>>
                 THEN IF isAbsolute THEN Slash
                      ELSE IF trailingSeparator THEN Dot \o Slash
                      ELSE Dot
                 ELSE (IF isAbsolute THEN Slash ELSE <<>>)
                        \o n \o (IF trailingSeparator THEN Slash ELSE <<>>)

\* .replace(/^(\.\.[/\\])+/, '')
RECURSIVE StripDotDots(_)
StripDotDots(s) ==
    IF Len(s) >= 3 /\ SubSeq(s, 1, 2) = DotDot /\ s[3] \in {"/", "\\"}
      THEN StripDotDots(SubSeq(s, 4, Len(s)))
      ELSE s

\* .replace(/^[/\\]+/, '')
RECURSIVE StripSeps(_)
StripSeps(s) ==
    IF s # <<>> /\ Head(s) \in {"/", "\\"} THEN StripSeps(Tail(s)) ELSE s

\* path.posix.resolve(from, to) for an absolute from: an absolute to replaces
\* from, an empty to is skipped
resolve(from, to) ==
    LET resolvedPath == IF to # <<>> /\ to[1] = "/" THEN to ELSE from \o Slash \o to
    IN  Slash \o JoinSegs(normalizeString(Segments(resolvedPath), <<>>, FALSE))

\* path.posix.join(a, b): the non-empty arguments joined by "/" and normalized
join(a, b) ==
    IF a = <<>> /\ b = <<>> THEN Dot
    ELSE IF a = <<>> THEN normalize(b)
    ELSE IF b = <<>> THEN normalize(a)
    ELSE normalize(a \o Slash \o b)

\* the path without its trailing "/" characters (the first character stays)
RECURSIVE StripTrailing(_)
StripTrailing(p) ==
    IF Len(p) > 1 /\ p[Len(p)] = "/" THEN StripTrailing(SubSeq(p, 1, Len(p) - 1)) ELSE p

\* position of the last "/" of p, 0 when there is none
RECURSIVE LastSlash(_)
LastSlash(p) ==
    IF p = <<>> THEN 0
    ELSE IF p[Len(p)] = "/" THEN Len(p)
    ELSE LastSlash(SubSeq(p, 1, Len(p) - 1))

\* path.posix.dirname: end is the index (from 0) of the "/" that ends the
\* directory part, searched from the right down to index 1
dirname(p) ==
    IF p = <<>>
      THEN Dot
      ELSE LET q == StripTrailing(p)
               end == LastSlash(q) - 1
               hasRoot == p[1] = "/"
           IN  IF end < 1 THEN (IF hasRoot THEN Slash ELSE Dot)
               ELSE IF hasRoot /\ end = 1 THEN Slash \o Slash
               ELSE SubSeq(q, 1, end)

\* path.posix.basename
basename(p) ==
    LET q == StripTrailing(p)
    IN  IF q = Slash THEN <<>> ELSE SubSeq(q, LastSlash(q) + 1, Len(q))

(***************************************************************************)
(* resolveSafePath and the local-drive branches of the endpoints.          *)
(***************************************************************************)
safeSuffix(userPath) == StripSeps(StripDotDots(normalize(userPath)))
absolutePath(userPath) == resolve(STORAGE_DIR, safeSuffix(userPath))

\* (variant: the resolved path is returned unchecked)
DeniedNoCheck(userPath) == FALSE

\* if (!absolutePath.startsWith(STORAGE_DIR)) throw new Error('Access denied...')
Denied(userPath) == ~startsWith(absolutePath(userPath), STORAGE_DIR)

\* resolveSafePath(userPath) where it returns
resolveSafePath(userPath) == absolutePath(userPath)

\* parameters a request carries next to its path
NewNames == { <<"u">>, DotDot }
Destinations == { Slash, <<"u">> }

Answer(op, arg, ok, paths) ==
    /\ pathOp' = op
    /\ reqArg' = arg
    /\ pathOk' = ok
    /\ pathTouched' = IF ok THEN paths ELSE {}
    /\ UNCHANGED <<reqPath, cfgVars, jsVars, tokVars, activeCalls, nat, fsVars, ghostVars,
                   drvVars, rngVars, extVars, svcVars>>

\* the client composes the path of its request
TypeChar(c) ==
    /\ pathOp = "none"
    /\ Len(reqPath) < MaxPathLen
    /\ reqPath' = Append(reqPath, c)
    /\ UNCHANGED <<reqArg, pathOp, pathOk, pathTouched,
                   cfgVars, jsVars, tokVars, activeCalls, nat, fsVars, ghostVars,
                   drvVars, rngVars, extVars, svcVars>>

\* GET /api/files: fs.readdir(resolveSafePath(reqPath))
GetFiles ==
    /\ pathOp = "none"
    /\ Answer("files", <<>>, ~Denied(reqPath), {resolveSafePath(reqPath)})

\* POST /api/mkdir: fs.ensureDir(resolveSafePath(reqPath))
PostMkdir ==
    /\ pathOp = "none"
    /\ Answer("mkdir", <<>>, ~Denied(reqPath), {resolveSafePath(reqPath)})

\* POST /api/delete with one item: fs.remove(resolveSafePath(itemPath))
PostDelete ==
    /\ pathOp = "none"
    /\ Answer("delete", <<>>, ~Denied(reqPath), {resolveSafePath(reqPath)})

\* POST /api/move with one item: fs.move(absItem, absNewPath) unless they are equal
PostMove(destination) ==
    /\ pathOp = "none"
    /\ LET absItem == resolveSafePath(reqPath)
           absDestDir == resolveSafePath(destination)
           absNewPath == join(absDestDir, basename(absItem))
       IN  Answer("move", destination,
                  ~Denied(reqPath) /\ ~Denied(destination),
                  IF absItem # absNewPath THEN {absItem, absNewPath} ELSE {})

\* POST /api/transfer between local drives with one item: createReadStream(absPath),
\* ensureDir(absDestDir), createWriteStream(absDestFile)
PostTransfer(destPath) ==
    /\ pathOp = "none"
    /\ reqPath # <<>>
    /\ LET fileName == basename(reqPath)
           absPath == resolveSafePath(reqPath)
           absDestDir == resolveSafePath(destPath)
           absDestFile == join(absDestDir, fileName)
       IN  Answer("transfer", destPath,
                  ~Denied(reqPath) /\ ~Denied(destPath),
                  {absPath, absDestDir, absDestFile})

\* POST /api/rename: if (!oldPath || !newName) 400; fs.rename(absOld, absNew)
PostRename(newName) ==
    /\ pathOp = "none"
    /\ reqPath # <<>>
    /\ LET absOld == resolveSafePath(reqPath)
           absDir == dirname(absOld)
           absNew == join(absDir, newName)
       IN  Answer("rename", newName, ~Denied(reqPath), {absOld, absNew})

InitPath ==
    /\ Init
    /\ kind = "server" /\ srcLocal /\ dstLocal /\ ~isMove
    /\ \A n \in Nodes : srcExists[n]

NextPath ==
    \/ \E c \in Chars : TypeChar(c)
    \/ GetFiles
    \/ PostMkdir
    \/ PostDelete
    \/ \E d \in Destinations : PostMove(d)
    \/ \E d \in Destinations : PostTransfer(d)
    \/ \E n \in NewNames : PostRename(n)

SpecPath == InitPath /\ [][NextPath]_vars

(***************************************************************************)
(* Claims about the sandbox of the local drive (SpecPath).                 *)
(***************************************************************************)
\* p is the sandbox root or lies below it
InSandbox(p) == p = STORAGE_DIR \/ startsWith(p, STORAGE_DIR \o Slash)

\* p has a "../" in it
RECURSIVE HasTraversal(_)
HasTraversal(p) ==
    /\ Len(p) >= 3
    /\ \/ SubSeq(p, 1, 3) = DotDot \o Slash
       \/ HasTraversal(Tail(p))

\* C8: whenever resolveSafePath returns, the path it returns is the sandbox
\* root or lies inside it, never a parent or a sibling directory of the root.
C8_ResolvedInsideRoot ==
    (pathOp = "files" /\ pathOk) => \A p \in pathTouched : InSandbox(p)

\* C9 (as claimed): for every path with a "../" in it resolveSafePath throws
\* the access-denied error.
C9_TraversalDenied ==
    (pathOp = "mkdir" /\ HasTraversal(reqPath)) => ~pathOk

\* C9 (amended): for a path with a "../" in it resolveSafePath strips the
\* leading "../" run of the normalized path and throws access denied exactly
\* when what it resolved does not begin with the root string: it never returns
\* a path above the root, and "../u" returns root/u.
C9_TraversalStrippedOrDenied ==
    (pathOp = "mkdir" /\ HasTraversal(reqPath)) =>
        /\ pathOk => \A p \in pathTouched : startsWith(p, STORAGE_DIR)
        /\ reqPath = DotDot \o Slash \o <<"u">> =>
               pathOk /\ pathTouched = {STORAGE_DIR \o Slash \o <<"u">>}
        /\ reqPath = DotDot \o Slash \o DotDot => ~pathOk

C9_Witness ==
    /\ pathOp = "mkdir"
    /\ reqPath = DotDot \o Slash \o <<"u">>
    /\ pathOk
    /\ pathTouched = {<<"/", "u", "/", "u">>}

\* C10: every local path an endpoint reads, creates, renames to, moves to or
\* deletes lies inside the sandbox root.
C10_EndpointsInsideRoot ==
    \A p \in pathTouched : InSandbox(p)

(***************************************************************************)
(* The drive registry: /api/drives of the server (drives.json) and the     *)
(* drive functions of NativeAPI (Capacitor Preferences).  A handler reads  *)
(* the list, decides, and writes the new list in a later step.             *)
(***************************************************************************)
Names == {"n1", "n2"}
Accounts == { <<"u1", "a">>, <<"u2", "a">> }
Types == {"webdav", "local"}
Passwords == { Plain(""), Plain("p1") }
ProbeOutcomes == {"ok", "error", "timeout"}

\* req.body of POST /api/drives, the drive passed to addDrive
AddBodies ==
    { [name |-> n, type |-> t, url |-> a[1], username |-> a[2], password |-> p] :
          n \in Names, t \in Types, a \in Accounts, p \in Passwords }

\* an id crypto.randomUUID never hands out in a run
UnknownId == MaxRequests + 1

\* ids a request can name: 'local', the ids handed out so far, one not handed out
RequestIds == (LocalId .. (nextId - 1)) \cup {UnknownId}

nonDrvVars == <<cfgVars, jsVars, tokVars, activeCalls, nat, fsVars, ghostVars, pathVars, rngVars, extVars, svcVars>>

\* (variant: the password is stored as submitted)
encryptPlain(pw, key, iv) == pw

\* encrypt(text): if (!text) return text; else iv:ciphertext under the key
encrypt(pw, key, iv) ==
    IF pw.form = "absent" \/ pw.text = "" THEN pw ELSE Cipher(key, iv, pw.text)

\* decrypt(text): the plaintext of a ciphertext made with the key, else text itself
decrypt(pw, key) ==
    IF pw.form = "cipher" /\ pw.key = key THEN Plain(pw.text) ELSE pw

\* const safe = { ...d }; delete safe.password
View(d) == [d EXCEPT !.password = NoPassword]

Ids(list) == { list[i].id : i \in DOMAIN list }

\* drives.findIndex(d => d.id === id), 0 for -1
FindIndex(list, id) ==
    IF \E i \in DOMAIN list : list[i].id = id
      THEN CHOOSE i \in DOMAIN list :
               list[i].id = id /\ \A j \in DOMAIN list : list[j].id = id => i <= j
      ELSE 0

\* drives.filter(d => d.id !== id)
Without(list, id) == SelectSeq(list, LAMBDA d : d.id # id)

Reply(op, id, status, error, body, persisted, probes) ==
    resp' = [op |-> op, id |-> id, status |-> status, error |-> error, body |-> body,
             persisted |-> persisted, probes |-> probes]

\* the handler answers without writing
Answered(op, id, status, error) ==
    /\ Reply(op, id, status, error, <<>>, drives, <<>>)
    /\ started' = started + 1
    /\ UNCHANGED <<platform, drives, slots, nextId, accepted, removed, nonDrvVars>>

\* the handler goes on to write list and will answer with body
Writes(s, op, id, list, body) ==
    /\ slots' = [slots EXCEPT ![s] = [pc |-> "writing", op |-> op, list |-> list,
                                       id |-> id, body |-> body]]
    /\ started' = started + 1
    /\ UNCHANGED <<platform, drives, resp, accepted, removed, nonDrvVars>>

\* a request is taken up by the first handler that is free
CanStart(s, pf) ==
    /\ platform = pf
    /\ slots[s].pc = "idle"
    /\ \A r \in Slots : r < s => slots[r].pc # "idle"
    /\ started < MaxRequests

\* POST /api/drives
PostDrives(s, newDrive) ==
    /\ CanStart(s, "server")
    /\ IF \E i \in DOMAIN drives :
              drives[i].url = newDrive.url /\ drives[i].username = newDrive.username
         THEN Answered("add", nextId, 409, "DuplicateAccount")
       ELSE IF \E i \in DOMAIN drives : drives[i].name = newDrive.name
         THEN Answered("add", nextId, 409, "DuplicateName")
       ELSE LET d == [id |-> nextId, name |-> newDrive.name, type |-> newDrive.type,
                      url |-> newDrive.url, username |-> newDrive.username,
                      password |-> encrypt(newDrive.password, KeyOf("server"), nextId),
                      quota |-> Undef]
            IN  /\ Writes(s, "add", nextId, Append(drives, d), << View(d) >>)
                /\ nextId' = nextId + 1

\* (variant: the local drive can be deleted like any other)
DeleteRefused(id) == FALSE

\* if (id === 'local') return res.status(400)
DeleteGuard(id) == id = LocalId

\* DELETE /api/drives/:id
DeleteDrive(s, id) ==
    /\ CanStart(s, "server")
    /\ IF DeleteGuard(id)
         THEN Answered("remove", id, 400, "CannotDeleteLocal")
         ELSE Writes(s, "remove", id, Without(drives, id), <<>>) /\ UNCHANGED nextId

\* PATCH /api/drives/:id
PatchDrive(s, id, name) ==
    /\ CanStart(s, "server")
    /\ IF name = ""
         THEN Answered("rename", id, 400, "NameRequired")
       ELSE IF FindIndex(drives, id) = 0
         THEN Answered("rename", id, 404, "NotFound")
       ELSE IF \E i \in DOMAIN drives : drives[i].name = name /\ drives[i].id # id
         THEN Answered("rename", id, 409, "DuplicateName")
       ELSE /\ Writes(s, "rename", id,
                      [drives EXCEPT ![FindIndex(drives, id)].name = name], <<>>)
            /\ UNCHANGED nextId

\* (variant: a probe that fails leaves the quota as if it had answered)
QuotaAlways(probe) == QuotaKnown

\* GET /api/drives, one drive: the quota when the probe answers, null when it
\* throws or the 2 s timer rejects first
QuotaOf(probe) == IF probe = "ok" THEN QuotaKnown ELSE QuotaNull

\* GET /api/drives
GetDrivesServer(probes) ==
    /\ platform = "server"
    /\ started < MaxRequests
    /\ Reply("list", LocalId, 200, "none",
             [i \in DOMAIN drives |-> [View(drives[i]) EXCEPT !.quota = QuotaOf(probes[i])]],
             drives, probes)
    /\ started' = started + 1
    /\ UNCHANGED <<platform, drives, slots, nextId, accepted, removed, nonDrvVars>>

\* getDriveConfig(driveId): drives.find(d => d.id === driveId) || drives[0],
\* with the password decrypted
getDriveConfig(list, driveId) ==
    LET drive == IF FindIndex(list, driveId) # 0 THEN list[FindIndex(list, driveId)]
                 ELSE list[1]
    IN  [drive EXCEPT !.password = decrypt(drive.password, KeyOf("server"))]

\* an endpoint of the server looks a drive up
GetDriveConfig(driveId) ==
    /\ platform = "server"
    /\ started < MaxRequests
    /\ drives # <<>>
    /\ Reply("config", driveId, 200, "none", << getDriveConfig(drives, driveId) >>, drives, <<>>)
    /\ started' = started + 1
    /\ UNCHANGED <<platform, drives, slots, nextId, accepted, removed, nonDrvVars>>

\* NativeAPI.getDrives as far as the list goes: Local is put in front when it
\* is missing; a probe that answers adds the quota, any other leaves the entry
NativeList(list, probes) ==
    LET all == IF LocalId \in Ids(list) THEN list ELSE << LocalDrive("native") >> \o list
    IN  [i \in DOMAIN all |->
            IF probes[i] = "ok" THEN [all[i] EXCEPT !.quota = QuotaKnown] ELSE all[i]]

\* the probe outcomes of one getDrives call, all probes ending the same way
ProbesFor(list) ==
    { [i \in 1 .. (Len(list) + (IF LocalId \in Ids(list) THEN 0 ELSE 1)) |-> o] :
          o \in ProbeOutcomes }

\* the probes of the getDrives call inside addDrive, updateDrive and removeDrive
\* are taken to answer
ProbesOfWrite(list) == { p \in ProbesFor(list) : \A i \in DOMAIN p : p[i] = "ok" }

\* NativeAPI.getDrives
GetDrivesNative(probes) ==
    /\ platform = "native"
    /\ started < MaxRequests
    /\ Reply("list", LocalId, 200, "none", NativeList(drives, probes), drives, probes)
    /\ started' = started + 1
    /\ UNCHANGED <<platform, drives, slots, nextId, accepted, removed, nonDrvVars>>

\* NativeAPI.addDrive
AddDrive(s, drive, probes) ==
    /\ CanStart(s, "native")
    /\ LET newDrive == [id |-> nextId, name |-> drive.name, type |-> drive.type,
                        url |-> drive.url, username |-> drive.username,
                        password |-> encrypt(drive.password, KeyOf("native"), nextId),
                        quota |-> Undef]
       IN  Writes(s, "add", nextId, Append(NativeList(drives, probes), newDrive),
                  << newDrive >>)
    /\ nextId' = nextId + 1

\* NativeAPI.updateDrive(id, { name }) as App.jsx calls it
UpdateDrive(s, id, name, probes) ==
    /\ CanStart(s, "native")
    /\ LET list == NativeList(drives, probes)
           index == FindIndex(list, id)
       IN  IF index # 0
             THEN Writes(s, "rename", id, [list EXCEPT ![index].name = name], <<>>)
                    /\ UNCHANGED nextId
             ELSE Answered("rename", id, 200, "none")

\* NativeAPI.removeDrive
RemoveDrive(s, id, probes) ==
    /\ CanStart(s, "native")
    /\ Writes(s, "remove", id, Without(NativeList(drives, probes), id), <<>>)
    /\ UNCHANGED nextId

\* fs.writeJson(CONFIG_FILE, drives) / Preferences.set, then the answer
WriteDrives(s) ==
    /\ slots[s].pc = "writing"
    /\ drives' = slots[s].list
    /\ Reply(slots[s].op, slots[s].id, 200, "none", slots[s].body, slots[s].list, <<>>)
    /\ accepted' = IF slots[s].op = "add" THEN accepted \cup {slots[s].id} ELSE accepted
    /\ removed' = IF slots[s].op = "remove" THEN removed \cup {slots[s].id} ELSE removed
    /\ slots' = [slots EXCEPT ![s] = IdleSlot]
    /\ UNCHANGED <<platform, nextId, started, nonDrvVars>>

TransferIdle ==
    /\ kind = "server" /\ srcLocal = TRUE /\ dstLocal = TRUE /\ isMove = FALSE
    /\ isDir = [t \in TopItems |-> FALSE]
    /\ srcExists = [n \in Nodes |-> TRUE]
    /\ frames = << [items |-> [k \in TopItems |-> k], i |-> 1, move |-> FALSE] >>
    /\ pc = "loop" /\ exc = "none" /\ result = "running"
    /\ cancelled = {} /\ cancelQ = {} /\ activeCalls = {}
    /\ nat = [n \in Nodes |-> IdleStream]
    /\ dst = NoFiles /\ tmp = NoFiles
    /\ dstDir = [t \in TopItems |-> FALSE]
    /\ outcome = [n \in Nodes |-> "Pending"]
    /\ touched = AllFalse /\ turnCancelled = AllFalse /\ lateWrites = AllZero
    /\ midCancel = AllFalse /\ dstDelete = AllFalse /\ ioCaught = AllFalse
    /\ completions = AllZero

\* drives.json as written at start-up; Preferences with no 'drives' key
InitDrives ==
    /\ TransferIdle
    /\ PathIdle
    /\ RangeIdle
    /\ ExtIdle
    /\ SvcIdle
    /\ platform \in {"server", "native"}
    /\ drives = IF platform = "server" THEN << LocalDrive("server") >> ELSE <<>>
    /\ slots = [s \in Slots |-> IdleSlot]
    /\ nextId = 1
    /\ started = 0
    /\ resp = NoResp
    /\ accepted = {}
    /\ removed = {}

NextDrives ==
    \/ \E s \in Slots, b \in AddBodies : PostDrives(s, b)
    \/ \E s \in Slots, id \in RequestIds : DeleteDrive(s, id)
    \/ \E s \in Slots, id \in RequestIds, n \in Names \cup {""} : PatchDrive(s, id, n)
    \/ \E probes \in [DOMAIN drives -> ProbeOutcomes] : GetDrivesServer(probes)
    \/ \E id \in RequestIds : GetDriveConfig(id)
    \/ \E probes \in ProbesFor(drives) : GetDrivesNative(probes)
    \/ \E s \in Slots, b \in AddBodies, probes \in ProbesOfWrite(drives) : AddDrive(s, b, probes)
    \/ \E s \in Slots, id \in RequestIds, n \in Names, probes \in ProbesOfWrite(drives) :
           UpdateDrive(s, id, n, probes)
    \/ \E s \in Slots, id \in RequestIds, probes \in ProbesOfWrite(drives) :
           RemoveDrive(s, id, probes)
    \/ \E s \in Slots : WriteDrives(s)

SpecDrives == InitDrives /\ [][NextDrives]_vars

(***************************************************************************)
(* Claims about the drive registry (SpecDrives).                           *)
(***************************************************************************)
Quiet == \A s \in Slots : slots[s].pc = "idle"
SameAccount(d, e) == d.url = e.url /\ d.username = e.username

\* C11: an add whose (url, username) equals that of a drive in the list it
\* read is rejected: no handler goes on to write a list in which the drive it
\* appended has the account of an entry that was already there.
C11_DuplicateAccountRejected ==
    \A s \in Slots :
        (slots[s].pc = "writing" /\ slots[s].op = "add") =>
            LET l == slots[s].list
            IN  \A i \in 1 .. (Len(l) - 1) : ~SameAccount(l[i], l[Len(l)])

\* C12: when the concurrent requests on the server's registry have all been
\* answered, every drive whose add was answered with success and that was not
\* removed is in the persisted list, and no drive whose remove was answered
\* with success is.
C12_WritesSerializable ==
    (platform = "server" /\ Quiet) =>
        /\ (accepted \ removed) \subseteq Ids(drives)
        /\ removed \cap Ids(drives) = {}

\* C13: in every state of the server's registry exactly one drive has type
\* local, it has id 'local', no two drives share a name and no two WebDAV
\* drives share a (url, username) pair.
C13_RegistryInvariant ==
    platform = "server" =>
        /\ \E i \in DOMAIN drives :
              /\ drives[i].type = "local" /\ drives[i].id = LocalId
              /\ \A j \in DOMAIN drives : drives[j].type = "local" => j = i
        /\ \A i, j \in DOMAIN drives :
              i # j => /\ drives[i].name # drives[j].name
                       /\ (drives[i].type = "webdav" /\ drives[j].type = "webdav")
                              => ~SameAccount(drives[i], drives[j])

\* C14: the value a drive-management operation (list, add, rename, remove)
\* returns carries no password, plain or encrypted (an empty one is let pass).
C14_ResponsesCarryNoSecret ==
    resp.op \in {"list", "add", "rename", "remove"} =>
        \A i \in DOMAIN resp.body :
            resp.body[i].password.form = "absent" \/ resp.body[i].password.text = ""

C15_StoredEncrypted ==
    \A i \in DOMAIN drives :
        /\ ~(drives[i].password.form = "plain" /\ drives[i].password.text # "")
        /\ drives[i].password.form = "cipher" =>
               /\ drives[i].password.key = KeyOf(platform)
               /\ decrypt(drives[i].password, KeyOf(platform)).text \in {"p1"}

C15_SecretsKept ==
    \A i \in DOMAIN drives : \A j \in DOMAIN drives' :
        drives[i].id = drives'[j].id => drives[i].password = drives'[j].password

\* C15: every persisted password that was submitted non-empty is stored as a
\* ciphertext under the platform's key (it decrypts to what was submitted),
\* never as the plaintext, and no step (rename and remove included) changes
\* the stored password of a drive.
C15_SecretsEncryptedAtRest == [](C15_StoredEncrypted) /\ [][C15_SecretsKept]_vars

C15_Witness ==
    /\ resp.op = "rename" /\ resp.status = 200
    /\ \E i \in DOMAIN drives :
          /\ drives[i].id = resp.id
          /\ drives[i].password.form = "cipher"
          /\ drives[i].password.text = "p1"

\* C16: on the server the first entry of the persisted list is the drive with
\* id 'local', and getDriveConfig(id) returns the drive with that id when the
\* list has one and the local drive otherwise.
C16_ConfigLookup ==
    platform = "server" =>
        /\ drives # <<>> /\ drives[1].id = LocalId
        /\ resp.op = "config" =>
              LET l == resp.persisted
                  got == resp.body[1]
              IN  /\ got.password.form # "cipher"
                  /\ IF resp.id \in Ids(l)
                       THEN got.id = resp.id /\ View(got) = View(l[FindIndex(l, resp.id)])
                       ELSE got.id = LocalId /\ View(got) = View(l[1])

C16_Witness ==
    /\ resp.op = "config"
    /\ resp.id = UnknownId
    /\ Len(resp.persisted) = 2
    /\ resp.persisted[2].password.form = "cipher"
    /\ resp.body[1].id = LocalId

\* C17: GET /api/drives answers 200 with one entry for every persisted drive,
\* in persisted order, whatever each quota probe does; a probe that fails or
\* times out only makes that entry's quota null.
C17_ListSurvivesProbes ==
    (platform = "server" /\ resp.op = "list") =>
        /\ resp.status = 200
        /\ Len(resp.body) = Len(resp.persisted)
        /\ \A i \in DOMAIN resp.body :
              /\ [resp.body[i] EXCEPT !.quota = Undef] = View(resp.persisted[i])
              /\ resp.probes[i] # "ok" => resp.body[i].quota = QuotaNull
              /\ resp.probes[i] = "ok" => resp.body[i].quota = QuotaKnown

C17_Witness ==
    /\ platform = "server" /\ resp.op = "list"
    /\ Len(resp.body) = 2
    /\ resp.probes = <<"error", "timeout">>
    /\ resp.body[1].quota = QuotaNull /\ resp.body[2].quota = QuotaNull
    /\ resp.body[2].id = resp.persisted[2].id

(***************************************************************************)
(* The embedded local range server: LocalFileServer.handleClient.  One     *)
(* file is served; the byte at offset k of the file is written k, so a     *)
(* body is the sequence of the offsets that were sent.                     *)
(***************************************************************************)

nonRngVars == <<cfgVars, jsVars, tokVars, activeCalls, nat, fsVars, ghostVars, pathVars, drvVars, extVars, svcVars>>

\* long rangeEnd = -1: no end was parsed from the request
NoEnd == Absent

\* what the header loop leaves in rangeStart and rangeEnd: the initial values
\* when there is no Range header, and the two groups of bytes=(\d+)-(\d*)
RangeHeaders ==
    { [hasRange |-> FALSE, rangeStart |-> 0, rangeEnd |-> NoEnd] }
    \cup { [hasRange |-> TRUE, rangeStart |-> a, rangeEnd |-> b] :
              a \in 0 .. (MaxFileLen + 1), b \in {NoEnd} \cup (0 .. (MaxFileLen + 1)) }

\* if (rangeEnd == -1) rangeEnd = fileLength - 1
EffectiveEnd(rangeEnd, len) == IF rangeEnd = NoEnd THEN len - 1 ELSE rangeEnd

\* (variant: the length without the closing byte)
finalLengthOpen(rangeStart, rangeEnd) == rangeEnd - rangeStart

\* long finalLength = rangeEnd - rangeStart + 1
finalLength(rangeStart, rangeEnd) == rangeEnd - rangeStart + 1

\* raf.seek(rangeStart) and the read loop: bytes are copied while bytesToRead
\* is positive and read has not returned -1 at the end of the file
BytesSent(rangeStart, toRead, len) ==
    LET avail == IF len > rangeStart THEN len - rangeStart ELSE 0
        want  == IF toRead > 0 THEN toRead ELSE 0
        n     == IF want < avail THEN want ELSE avail
    IN  [i \in 1 .. n |-> rangeStart + i - 1]

\* bytes 0 .. len-1, the whole file
WholeFile(len) == [i \in 1 .. len |-> i - 1]

RangeReply(method, h, status, cl, crs, cre, crt, bytes) ==
    rangeResp' = [method |-> method, hasRange |-> h.hasRange,
                  rangeStart |-> h.rangeStart, rangeEnd |-> h.rangeEnd,
                  status |-> status, contentLength |-> cl,
                  crStart |-> crs, crEnd |-> cre, crTotal |-> crt, body |-> bytes]

\* GET (every method but PUT and OPTIONS): 404 without a regular file,
\* otherwise the 206 answer computed from rangeStart, rangeEnd and file.length()
HandleGet(h) ==
    /\ IF fileLength = Absent
         THEN RangeReply("GET", h, 404, 0, 0, 0, 0, <<>>)
         ELSE LET end == EffectiveEnd(h.rangeEnd, fileLength)
                  fl  == finalLength(h.rangeStart, end)
              IN  RangeReply("GET", h, 206, fl, h.rangeStart, end, fileLength,
                             BytesSent(h.rangeStart, fl, fileLength))
    /\ UNCHANGED <<fileLength, nonRngVars>>

\* PUT: the body is copied to the file; 201 on success, and on an exception
\* the partial file is deleted and the answer is 500
HandlePut(h, n, success) ==
    /\ fileLength' = IF success THEN n ELSE Absent
    /\ RangeReply("PUT", h, IF success THEN 201 ELSE 500, 0, 0, 0, 0, <<>>)
    /\ UNCHANGED nonRngVars

\* OPTIONS: 200 with the CORS headers
HandleOptions(h) ==
    /\ RangeReply("OPTIONS", h, 200, 0, 0, 0, 0, <<>>)
    /\ UNCHANGED <<fileLength, nonRngVars>>

InitRange ==
    /\ TransferIdle
    /\ PathIdle
    /\ DrivesIdle
    /\ RangeIdle
    /\ ExtIdle
    /\ SvcIdle

NextRange ==
    \/ \E h \in RangeHeaders : HandleGet(h)
    \/ \E h \in RangeHeaders, n \in 0 .. MaxFileLen, success \in BOOLEAN : HandlePut(h, n, success)
    \/ \E h \in RangeHeaders : HandleOptions(h)

SpecRange == InitRange /\ [][NextRange]_vars

(***************************************************************************)
(* Claims about the range server (SpecRange).                              *)
(***************************************************************************)

\* a GET that found the file: fileLength is still the length it was served from
Served == rangeResp.method = "GET" /\ fileLength # Absent

\* C18: for a file of length L and Range bytes=s-e with 0 <= s <= e < L the
\* answer to GET is 206 with Content-Length e-s+1, Content-Range bytes s-e/L
\* and a body that is exactly bytes s..e of the file.
C18_SatisfiableRange ==
    LET s == rangeResp.rangeStart
        e == rangeResp.rangeEnd
    IN  (Served /\ rangeResp.hasRange /\ e # NoEnd /\ s <= e /\ e < fileLength) =>
            /\ rangeResp.status = 206
            /\ rangeResp.contentLength = e - s + 1
            /\ rangeResp.crStart = s /\ rangeResp.crEnd = e /\ rangeResp.crTotal = fileLength
            /\ rangeResp.body = [i \in 1 .. (e - s + 1) |-> s + i - 1]

C18_Witness ==
    /\ Served /\ rangeResp.hasRange
    /\ fileLength = 4
    /\ rangeResp.rangeStart = 1 /\ rangeResp.rangeEnd = 2
    /\ rangeResp.status = 206
    /\ rangeResp.body = <<1, 2>>

\* C19: for every GET the server answers from a file, whatever the Range
\* (end omitted, end at or beyond the length, start at or beyond the length,
\* empty file), Content-Length is the number of body bytes sent and
\* Content-Range names exactly the window of bytes that were sent.
C19_HeadersMatchBody ==
    Served =>
        /\ rangeResp.contentLength = Len(rangeResp.body)
        /\ rangeResp.crTotal = fileLength
        /\ rangeResp.body =
              [i \in 1 .. (rangeResp.crEnd - rangeResp.crStart + 1) |-> rangeResp.crStart + i - 1]

\* C20: a GET whose Range start is at or beyond the length of the file is
\* answered 416, and a GET without a Range header is answered 200 with the
\* whole file as the body.
C20_StatusCodes ==
    Served =>
        /\ (rangeResp.hasRange /\ rangeResp.rangeStart >= fileLength) => rangeResp.status = 416
        /\ ~rangeResp.hasRange =>
              (rangeResp.status = 200 /\ rangeResp.body = WholeFile(fileLength))

(***************************************************************************)
(* GET /api/raw on a WebDAV drive: the proxy in front of the upstream      *)
(* server.  The result of client.customRequest is an input: it arrives as  *)
(* a response or as a thrown error, with the shapes the handler tests for. *)
(***************************************************************************)

nonExtVars == <<cfgVars, jsVars, tokVars, activeCalls, nat, fsVars, ghostVars, pathVars,
                drvVars, rngVars, svcVars>>
treeVars == <<backend, tree, treeResp>>

\* req.headers.range: absent, or the text of the header
ClientRanges == {NoHeader, "bytes=0-1", "bytes=9-"}

UpstreamStatuses == {200, 204, 206, 404, 416, 500}

\* what customRequest yields: a response, an error carrying a response, or an
\* error without one; response.headers is an object with get(), a plain
\* object, or missing; the stream is response.body, response.data or neither,
\* and it has pipe(), is a web stream, or is neither
Upstreams ==
    [arrival : {"response", "error", "failure"},
     status : UpstreamStatuses,
     hdrKind : {"get", "plain", "none"},
     contentRange : {NoHeader, "bytes 0-1/4"},
     contentLength : {NoHeader, "2"},
     stream : {"body", "data", "none"},
     pipe : {"node", "web", "none"}]

\* an upstream result as the handler can see it: headers that are missing
\* carry no value, a stream that is missing is of no kind, and an error
\* without a response has no status, headers or stream
WellFormed(up) ==
    /\ up.hdrKind = "none" => up.contentRange = NoHeader /\ up.contentLength = NoHeader
    /\ up.stream = "none" <=> up.pipe = "none"
    /\ up.arrival = "failure" =>
          up.status = 500 /\ up.hdrKind = "none" /\ up.stream = "none"

\* getHeader(key): response.headers.get(key) when get is a function, else
\* response.headers[key] || response.headers[key.toLowerCase()], null without headers
getHeader(up, val) == IF up.hdrKind = "none" THEN NoHeader ELSE val

\* err.response.headers[key]: the property of a plain object; an object that
\* answers through get() has no such property
errHeader(up, val) == IF up.hdrKind = "plain" THEN val ELSE NoHeader

\* if (req.headers.range) options.headers['Range'] = req.headers.range
ForwardedRange(range) == IF range # NoHeader THEN range ELSE NoHeader

\* res.status(err.response.status)
ErrorStatus(up) == up.status

RawReply(range, up, status, cr, cl, piped) ==
    rawResp' = [range |-> range, up |-> up, upRange |-> ForwardedRange(range),
                status |-> status, contentRange |-> cr, contentLength |-> cl,
                piped |-> piped]

\* the handler, from the request to the response it ends with
GetRaw(range, up) ==
    /\ WellFormed(up)
    /\ CASE up.arrival = "response" ->
              LET cr == getHeader(up, up.contentRange)
                  cl == getHeader(up, up.contentLength)
              IN  IF up.stream = "none"
                    \* throw new Error('No response stream available'): caught below,
                    \* the error has no response
                    THEN RawReply(range, up, 502, cr, cl, FALSE)
                    ELSE IF up.pipe = "none"
                           THEN RawReply(range, up, 500, cr, cl, FALSE)
                           ELSE RawReply(range, up, up.status, cr, cl, TRUE)
         [] up.arrival = "error" ->
              IF up.hdrKind = "none"
                \* err.response.headers[key] throws; the outer catch answers 500
                THEN RawReply(range, up, 500, NoHeader, NoHeader, FALSE)
                ELSE RawReply(range, up, ErrorStatus(up),
                              errHeader(up, up.contentRange),
                              errHeader(up, up.contentLength),
                              up.stream = "data" /\ up.pipe = "node")
         [] OTHER -> RawReply(range, up, 502, NoHeader, NoHeader, FALSE)
    /\ UNCHANGED <<nonExtVars, treeVars, served>>

InitRaw ==
    /\ TransferIdle
    /\ PathIdle
    /\ DrivesIdle
    /\ RangeIdle
    /\ ExtIdle
    /\ SvcIdle

NextRaw == \E range \in ClientRanges, up \in Upstreams : GetRaw(range, up)

SpecRaw == InitRaw /\ [][NextRaw]_vars

(***************************************************************************)
(* Claims about the /api/raw proxy (SpecRaw).                              *)
(***************************************************************************)

\* C21: the Range header sent upstream is the client's Range header (absent
\* when the client sent none), and the status the client gets is the
\* upstream status, for every upstream status, whether the upstream result
\* arrives as a response or as a thrown error carrying a response.
C21_StatusRelayed ==
    rawResp.up.arrival \in {"response", "error"} =>
        /\ rawResp.upRange = rawResp.range
        /\ rawResp.status = rawResp.up.status

\* C29: when the upstream request fails with an error that carries a
\* response, the client gets the upstream status and the upstream
\* content-range and content-length headers whenever the upstream sent
\* them, for headers behind get() and for headers in a plain object.
C29_ErrorHeadersRelayed ==
    (rawResp.up.arrival = "error" /\ rawResp.up.hdrKind \in {"get", "plain"}) =>
        /\ rawResp.status = rawResp.up.status
        /\ rawResp.up.contentRange # NoHeader => rawResp.contentRange = rawResp.up.contentRange
        /\ rawResp.up.contentLength # NoHeader => rawResp.contentLength = rawResp.up.contentLength

(***************************************************************************)
(* File requests on one drive: directory listing, mkdir and move, for the  *)
(* server API and the native API, on a local and on a WebDAV drive.  File  *)
(* names use unreserved characters only, which encodeURIComponent and      *)
(* decodeURIComponent leave as they are.                                   *)
(***************************************************************************)

MaxMoveItems == 2    \* items of one move request

Backends == [platform : {"server", "native"}, type : {"local", "webdav"}]

\* this.origin and this.basePath of the WebDAV client; this.url is both
Origin == << "o" >>
BasePath == << "/", "v" >>

IsDir(t, p) == p \in DOMAIN t /\ t[p] = "dir"
IsFile(t, p) == p \in DOMAIN t /\ t[p] # "dir"

\* the directory that holds p
ParentDir(p) == IF LastSlash(p) <= 1 THEN Slash ELSE SubSeq(p, 1, LastSlash(p) - 1)

\* item.split('/').pop()
PopSegment(p) == SubSeq(p, LastSlash(p) + 1, Len(p))

\* what readdir / PROPFIND Depth 1 / Filesystem.readdir find in d
Children(t, d) == { p \in DOMAIN t : p # Slash /\ ParentDir(p) = d }

\* STORAGE_DIR-relative web path of an absolute local path
WebPath(abs) ==
    IF abs = STORAGE_DIR THEN Slash ELSE SubSeq(abs, Len(STORAGE_DIR) + 1, Len(abs))

\* .replace(/^\/+/, '')
RECURSIVE StripSlashes(_)
StripSlashes(s) == IF s # <<>> /\ Head(s) = "/" THEN StripSlashes(Tail(s)) ELSE s

\* String.prototype.replace('//', '/'): the first occurrence only
RECURSIVE ReplaceFirstDoubleSlash(_)
ReplaceFirstDoubleSlash(s) ==
    IF Len(s) < 2 THEN s
    ELSE IF s[1] = "/" /\ s[2] = "/" THEN Tail(s)
    ELSE <<Head(s)>> \o ReplaceFirstDoubleSlash(Tail(s))

\* NativeWebDAVClient._resolveUrl
resolveUrl(path) ==
    IF path = <<>> \/ path = Slash THEN Origin \o BasePath \o Slash
    ELSE LET cleanPath == IF path[1] = "/" THEN path ELSE Slash \o path
         IN  IF startsWith(cleanPath, BasePath)
               THEN IF cleanPath = BasePath \/ cleanPath = BasePath \o Slash
                      THEN Origin \o BasePath \o Slash
                      ELSE Origin \o BasePath
                           \o SubSeq(cleanPath, Len(BasePath) + 1, Len(cleanPath))
               ELSE Origin \o BasePath \o cleanPath

\* the href a WebDAV server writes for p in a multistatus answer: an absolute
\* path with the collection's trailing slash, the same without that slash,
\* or an absolute URL
HrefStyles == {"slash", "bare", "url"}
HrefOf(p, dir, style) ==
    (IF style = "url" THEN Origin ELSE <<>>)
    \o BasePath \o (IF p = Slash THEN <<>> ELSE p)
    \o (IF dir /\ style # "bare" THEN Slash ELSE <<>>)

\* the <response> elements of PROPFIND Depth 1 on d: d itself and its children
Multistatus(t, d, style) ==
    { [href |-> HrefOf(p, t[p] = "dir", style),
       type |-> IF t[p] = "dir" THEN "directory" ELSE "file",
       self |-> p = d] : p \in {d} \cup Children(t, d) }

\* decodedHref.replace(/\/$/, '').split('/').pop()
HrefBasename(href) ==
    LET h == IF href # <<>> /\ href[Len(href)] = "/"
               THEN SubSeq(href, 1, Len(href) - 1) ELSE href
    IN  PopSegment(h)

\* the filter at the end of getDirectoryContents
KeepsItem(it, reqHref) ==
    LET itemHref == IF it.type = "directory" /\ it.href[Len(it.href)] # "/"
                      THEN it.href \o Slash ELSE it.href
    IN  itemHref # reqHref

\* NativeWebDAVClient.getDirectoryContents
getDirectoryContents(t, d, style) ==
    LET full   == resolveUrl(d)
        noOrig == SubSeq(full, Len(Origin) + 1, Len(full))
        reqHref == IF noOrig[Len(noOrig)] = "/" THEN noOrig ELSE noOrig \o Slash
    IN  { [name |-> HrefBasename(it.href), self |-> it.self] :
            it \in { i \in Multistatus(t, d, style) : KeepsItem(i, reqHref) } }

\* f.startsWith('.')
Hidden(name) == startsWith(name, Dot)

\* the names the listing of d returns, per API and kind of drive
ListEntries(t, d, style) ==
    CASE backend.platform = "server" /\ backend.type = "local" ->
             \* fs.readdir(resolveSafePath(reqPath)) filtered
             { [name |-> PopSegment(p), self |-> FALSE] :
                 p \in { c \in Children(t, WebPath(resolveSafePath(d))) :
                           ~Hidden(PopSegment(c)) } }
      [] backend.platform = "native" /\ backend.type = "webdav" ->
             getDirectoryContents(t, d, style)
      [] OTHER ->
             \* the webdav package's getDirectoryContents, Filesystem.readdir:
             \* the children of d as they are
             { [name |-> PopSegment(p), self |-> FALSE] : p \in Children(t, d) }

TreeReply(op, path, items, destination, ok, entries) ==
    treeResp' = [op |-> op, path |-> path, items |-> items, destination |-> destination,
                 ok |-> ok, entries |-> entries, before |-> tree]

\* GET /api/files, NativeAPI.getFiles
ListFiles(d, style) ==
    /\ IsDir(tree, d)
    /\ TreeReply("files", d, <<>>, <<>>, TRUE, ListEntries(tree, d, style))
    /\ UNCHANGED <<backend, tree, rawResp, served, nonExtVars>>

MkdirPaths == { << "/", "a" >>, << "/", "n" >> }

\* t with the directory p (its parent exists)
WithDir(t, p) == IF p \in DOMAIN t THEN t ELSE t @@ (p :> "dir")

\* MKCOL as a WebDAV server answers it (RFC 4918, 9.3.1): 405 on a mapped
\* URL, 409 without the parent collection, 201 otherwise
MkcolStatus(t, p) ==
    IF p \in DOMAIN t THEN 405
    ELSE IF ~IsDir(t, ParentDir(p)) THEN 409
    ELSE 201

\* NativeWebDAVClient._request: if (res.status >= 400) throw; the webdav
\* package rejects the same statuses
RequestThrows(status) == status >= 400

\* POST /api/mkdir, NativeAPI.createFolder.  mkdirRejects: Filesystem.mkdir
\* rejects on a directory that exists; android: Capacitor.getPlatform()
Mkdir(p, mkdirRejects, android) ==
    /\ ~IsFile(tree, p)
    /\ IsDir(tree, ParentDir(p))
    /\ LET exists == IsDir(tree, p)
           ok == CASE backend.type = "webdav" -> ~RequestThrows(MkcolStatus(tree, p))
                   [] backend.platform = "server" -> TRUE      \* fs.ensureDir
                   [] OTHER -> \* Filesystem.mkdir, then WebDavNative.createDirectory
                               ~(exists /\ mkdirRejects) \/ android
       IN  /\ tree' = IF ok THEN WithDir(tree, p) ELSE tree
           /\ TreeReply("mkdir", p, <<>>, <<>>, ok, {})
    /\ UNCHANGED <<backend, rawResp, served, nonExtVars>>

\* the path an item is moved to
MoveTarget(itemPath, destination) ==
    CASE backend.platform = "server" /\ backend.type = "local" ->
             WebPath(join(resolveSafePath(destination), basename(resolveSafePath(itemPath))))
      [] backend.platform = "server" /\ backend.type = "webdav" ->
             Slash \o join(StripSlashes(destination), basename(itemPath))
      [] backend.platform = "native" /\ backend.type = "webdav" ->
             ReplaceFirstDoubleSlash(destination \o Slash \o PopSegment(itemPath))
      [] OTHER ->
             (IF destination = Slash THEN <<>> ELSE destination) \o Slash \o PopSegment(itemPath)

\* fs.move(from, to, { overwrite: true }), MOVE with Overwrite: T,
\* Filesystem.rename: the file is at to afterwards, in place of what was there
Renamed(t, from, to) ==
    [p \in (DOMAIN t \ {from}) \cup {to} |-> IF p = to THEN t[from] ELSE t[p]]

\* the moves of one request applied in the order they complete (the local
\* branches skip an item that is at its target already); ok is FALSE once a
\* move fails
RECURSIVE MoveAll(_, _, _)
MoveAll(t, order, destination) ==
    IF order = <<>> THEN [tree |-> t, ok |-> TRUE]
    ELSE LET from == Head(order)
             to   == MoveTarget(from, destination)
         IN  IF from = to /\ backend.type = "local"
               THEN MoveAll(t, Tail(order), destination)
             \* a source that is gone: ENOENT, 404; MOVE onto itself: 403
             ELSE IF from \notin DOMAIN t \/ from = to
               THEN [tree |-> t, ok |-> FALSE]
             ELSE MoveAll(Renamed(t, from, to), Tail(order), destination)

Files(t) == { p \in DOMAIN t : t[p] # "dir" }
Dirs(t) == { p \in DOMAIN t : t[p] = "dir" }

\* the orders in which the items of a request can complete
Orders(t) ==
    { o \in UNION { [1 .. n -> Files(t)] : n \in 1 .. MaxMoveItems } :
        \A i, j \in DOMAIN o : i # j => o[i] # o[j] }

\* POST /api/move, NativeAPI.moveItems: Promise.all over the items
MoveItems(order, destination) ==
    /\ IsDir(tree, destination)
    /\ LET r == MoveAll(tree, order, destination)
       IN  /\ tree' = r.tree
           /\ TreeReply("move", <<>>, order, destination, r.ok, {})
    /\ UNCHANGED <<backend, rawResp, served, nonExtVars>>

InitTree ==
    /\ TransferIdle
    /\ PathIdle
    /\ DrivesIdle
    /\ RangeIdle
    /\ RawIdle
    /\ ServeIdle
    /\ SvcIdle
    /\ backend \in Backends
    /\ tree = InitialTree
    /\ treeResp = NoTreeResp

NextTree ==
    \/ \E d \in Dirs(tree), style \in HrefStyles : ListFiles(d, style)
    \/ \E p \in MkdirPaths, mkdirRejects \in BOOLEAN, android \in BOOLEAN :
           Mkdir(p, mkdirRejects, android)
    \/ \E order \in Orders(tree), destination \in Dirs(tree) : MoveItems(order, destination)

SpecTree == InitTree /\ [][NextTree]_vars

(***************************************************************************)
(* Claims about listing, mkdir and move (SpecTree).                        *)
(***************************************************************************)

\* C22: for both backends the entries a directory listing returns never
\* include the queried directory itself and never include an entry whose
\* name begins with '.'.
C22_ListingHidesSelfAndDotNames ==
    treeResp.op = "files" =>
        \A e \in treeResp.entries : ~e.self /\ ~startsWith(e.name, Dot)

\* C23: for both backends a second mkdir on a path that already exists as a
\* directory returns success like the first and leaves the tree unchanged.
C23_MkdirIdempotent ==
    (treeResp.op = "mkdir" /\ IsDir(treeResp.before, treeResp.path)) =>
        /\ treeResp.ok
        /\ tree = treeResp.before

\* the items of the last move that were not in the destination already
Relocated ==
    { treeResp.items[i] : i \in DOMAIN treeResp.items } \ Children(treeResp.before, treeResp.destination)

\* C24: after a successful move of a set of items into a destination
\* directory each source path no longer exists, each item is at
\* destination/basename with its original content, and the number of items
\* on the drive is unchanged, also when the items are moved concurrently.
C24_MoveRelocates ==
    (treeResp.op = "move" /\ treeResp.ok) =>
        /\ \A it \in Relocated :
              LET to == IF treeResp.destination = Slash THEN Slash \o PopSegment(it)
                        ELSE treeResp.destination \o Slash \o PopSegment(it)
              IN  /\ it \notin DOMAIN tree
                  /\ to \in DOMAIN tree
                  /\ tree[to] = treeResp.before[it]
        /\ Cardinality(DOMAIN tree) = Cardinality(DOMAIN treeResp.before)

(***************************************************************************)
(* Claims about failures, moves, staging and directories (Spec).           *)
(***************************************************************************)

\* C25: when a transfer item fails mid-stream with an error that is not a
\* cancellation, the partially written file or object is removed from the
\* destination before the error is returned, for local and WebDAV
\* destinations alike.
C25_PartialRemovedOnError ==
    Returned => \A n \in Nodes : ioCaught[n] => dst[n] = Absent

\* Local -> Local through NativeAPI.crossDriveTransfer: Filesystem.copy only
NativeLocalCopy == kind = "transfer" /\ srcLocal /\ dstLocal

MoveRequest == isMove /\ kind \in {"transfer", "server"}

\* a requested file item that completed
DoneFile(n) == n \in TopItems /\ ~isDir[n] /\ outcome[n] = "Done"

C26_Moved ==
    MoveRequest =>
        \A n \in TopItems :
            DoneFile(n) =>
                /\ dst[n] = ChunksPerFile
                /\ srcExists[n] <=> NativeLocalCopy

\* the source of a requested file disappears only once its destination is
\* complete and the write has been acknowledged
C26_DeleteAfterAck ==
    \A n \in TopItems :
        (~isDir[n] /\ srcExists[n] /\ ~srcExists'[n]) =>
            /\ isMove
            /\ dst[n] = ChunksPerFile
            /\ nat[n].pc = "resolved"

Relayed == kind = "transfer" /\ ~srcLocal /\ ~dstLocal

C27_LegsInOrder ==
    Relayed =>
        \A n \in Nodes :
            \* while the GET into the staging file runs nothing is at the destination
            /\ (nat[n].op = "tmpdown" /\ nat[n].pc # "rejected") => dst[n] = Absent
            \* the PUT reads a staging file that is complete
            /\ (nat[n].op = "tmpup" /\ InFlight(n)) => tmp[n] = ChunksPerFile
            \* once the item has ended after its PUT the staging file is gone
            /\ (nat[n].op = "tmpup" /\ outcome[n] \in Terminal) => tmp[n] = Absent

C27_DeleteAfterPut ==
    Relayed =>
        \A n \in TopItems :
            (~isDir[n] /\ srcExists[n] /\ ~srcExists'[n]) =>
                /\ nat[n].op = "tmpup" /\ nat[n].pc = "resolved"
                /\ tmp[n] = Absent

\* C27: for a WebDAV -> WebDAV item the PUT to the destination starts only
\* after the GET into the staging file has completed, the staging file is
\* deleted after the PUT ends, and in Move mode the source DELETE is issued
\* only after the PUT has succeeded; no byte is sent to the destination
\* while the source download is still running.
C27_StagedRelay == [](C27_LegsInOrder) /\ [][C27_DeleteAfterPut]_vars

C27_Witness ==
    /\ Relayed /\ isMove
    /\ ~isDir[1]
    /\ nat[1].op = "tmpup"
    /\ outcome[1] = "Done"
    /\ tmp[1] = Absent
    /\ dst[1] = ChunksPerFile
    /\ ~srcExists[1]

\* the children the recursive call was given
Listed(d) == IF listing[d] = "failed" THEN {} ELSE ChildrenOf(d)

C28_DirectoryFirst ==
    kind = "transfer" =>
        \A d \in TopItems : \A c \in ChildrenOf(d) :
            \* nothing is done for a child before the destination directory exists
            /\ (touched[c] \/ outcome[c] # "Pending" \/ dst[c] # Absent) => dstDir[d]
            \* a failing child keeps the source directory
            /\ outcome[c] = "Error" => srcExists[d]

C28_DeleteAfterChildren ==
    kind = "transfer" =>
        \A d \in TopItems :
            /\ (isDir[d] /\ srcExists[d] /\ ~srcExists'[d]) =>
                  /\ isMove
                  /\ \A c \in Listed(d) : outcome[c] = "Done" /\ dst[c] = ChunksPerFile
            \* Copy mode for the children: a child's source goes with its directory only
            /\ \A c \in ChildrenOf(d) :
                  (srcExists[c] /\ ~srcExists'[c]) => (isDir[d] /\ srcExists[d] /\ ~srcExists'[d])

\* C28: for a directory item the destination directory is created before any
\* child is transferred, children are transferred in Copy mode, and in Move
\* mode the source directory is deleted only after every child transfer has
\* completed successfully; a failing child prevents the source directory
\* from being deleted.
C28_DirectoryItem == [](C28_DirectoryFirst) /\ [][C28_DeleteAfterChildren]_vars

C28_Witness ==
    /\ kind = "transfer" /\ isMove
    /\ isDir[1]
    /\ outcome[1] = "Done"
    /\ ~srcExists[1]
    /\ \A c \in ChildrenOf(1) : outcome[c] = "Done" /\ dst[c] = ChunksPerFile

\* a child failed and the request has returned with the directory in place
C28_WitnessFailingChild ==
    /\ kind = "transfer" /\ isMove /\ isDir[1]
    /\ \E c \in ChildrenOf(1) : outcome[c] = "Error"
    /\ result = "rejected"
    /\ srcExists[1]

(***************************************************************************)
(* LocalFileServer.handleClient: the file a request path selects.  The     *)
(* range arithmetic of the GET answer is HandleGet above.                  *)
(***************************************************************************)

MaxServeLen == 5     \* characters of the path below the root

ServeChars == {"/", ".", "r"}

\* Environment.getExternalStorageDirectory() and getExternalCacheDir()
ExternalRoot == << "/", "r" >>
CacheRoot == << "/", "r", "/", "r" >>

\* the request path without the "/cache/" prefix, or without its first "/"
ServePaths == UNION { [1 .. n -> ServeChars] : n \in 0 .. MaxServeLen }

\* root = path.startsWith("/cache/") ? getExternalCacheDir() : external storage
RootOf(cache) == IF cache THEN CacheRoot ELSE ExternalRoot

\* new File(root, path).getCanonicalPath(): "." and ".." resolved, no
\* repeated or trailing separator
CanonicalFile(root, p) == StripTrailing(normalize(root \o Slash \o p))

\* the file is the root directory or lies below it
InsideRoot(f, root) == f = root \/ startsWith(f, root \o Slash)

\* if (!file.getCanonicalPath().startsWith(root.getCanonicalPath())) -> 403
Escapes(f, root) == ~startsWith(f, root)

\* one request on a connection (handleClient returns after it): the root
\* check, then PUT, OPTIONS or GET
ServeFile(method, cache, p, exists) ==
    /\ served = NoServed
    /\ LET root == RootOf(cache)
           f == CanonicalFile(root, p)
           status == IF Escapes(f, root) THEN 403
                     ELSE CASE method = "PUT" -> 201
                            [] method = "OPTIONS" -> 200
                            [] OTHER -> IF exists THEN 206 ELSE 404
       IN  served' = [method |-> method, cache |-> cache, path |-> p, exists |-> exists,
                      status |-> status,
                      file |-> IF status \in {201, 206} THEN f ELSE <<>>]
    /\ UNCHANGED <<rawResp, treeVars, nonExtVars>>

InitServe ==
    /\ TransferIdle
    /\ PathIdle
    /\ DrivesIdle
    /\ RangeIdle
    /\ ExtIdle
    /\ SvcIdle

NextServe ==
    \E method \in {"GET", "PUT", "OPTIONS"}, cache \in BOOLEAN, p \in ServePaths,
       exists \in BOOLEAN : ServeFile(method, cache, p, exists)

SpecServe == InitServe /\ [][NextServe]_vars

\* C30: for every request path the range server never reads (GET) or writes
\* (PUT) a file outside the root directory selected for the request, a
\* sibling directory whose name starts with the root's name included; such
\* a request is answered 403 or 404.
C30_StaysInsideRoot ==
    served.method \in {"GET", "PUT"} =>
        LET root == RootOf(served.cache)
        IN  /\ served.file # <<>> => InsideRoot(served.file, root)
            /\ ~InsideRoot(CanonicalFile(root, served.path), root) =>
                  served.status \in {403, 404}

(***************************************************************************)
(* LocalFileServer.run and the workers of its pool.  Two range requests    *)
(* on one file are followed byte by byte; the other connections are        *)
(* clients that stall (they send no request line, or stop reading), and    *)
(* are counted.                                                            *)
(***************************************************************************)
\* the file both requests read
PoolFile == << "b0", "b1", "b2" >>
\* Range: bytes=start-end of the followed requests; the windows overlap
Windows == { <<0, 2>>, <<0, 1>>, <<1, 2>> }
\* queue entry of a connection whose client stalls
StalledClient == 0

Running == { c \in Conns : conn[c].st = "running" }
\* threads of the fixed pool that are not inside handleClient
FreeWorkers == PoolSize - held - Cardinality(Running)
\* rangeEnd - rangeStart + 1 bytes from rangeStart
Window(c) == SubSeq(PoolFile, conn[c].rangeStart + 1, conn[c].rangeEnd + 1)

\* Socket socket = serverSocket.accept(); executor.submit(() -> handleClient(socket))
Accept(c, w) ==
    /\ conn[c].st = "none"
    /\ Len(queue) < MaxQueue
    /\ conn' = [conn EXCEPT ![c] = [st |-> "queued", rangeStart |-> w[1],
                                    rangeEnd |-> w[2], got |-> <<>>]]
    /\ queue' = Append(queue, c)
    /\ UNCHANGED <<held, nonPoolVars>>

\* the same for a connection whose client then stalls
AcceptStalled ==
    /\ Len(queue) < MaxQueue
    /\ queue' = Append(queue, StalledClient)
    /\ UNCHANGED <<held, conn, nonPoolVars>>

\* a thread of the pool takes the oldest waiting connection and enters
\* handleClient: readLine blocks on a client that sends nothing (no socket
\* timeout is set); a range request gets its headers and its own
\* RandomAccessFile, positioned by raf.seek(rangeStart)
Take ==
    /\ queue # <<>>
    /\ FreeWorkers > 0
    /\ queue' = Tail(queue)
    /\ IF Head(queue) = StalledClient
         THEN held' = held + 1 /\ UNCHANGED conn
         ELSE conn' = [conn EXCEPT ![Head(queue)].st = "running"] /\ UNCHANGED held
    /\ UNCHANGED nonPoolVars

\* raf.read / out.write of the next byte of the window; after the last one
\* the handler returns, the socket is closed and the thread is free again
SendByte(c) ==
    /\ conn[c].st = "running"
    /\ LET got == Append(conn[c].got, PoolFile[conn[c].rangeStart + Len(conn[c].got) + 1])
           bytesToRead == finalLength(conn[c].rangeStart, conn[c].rangeEnd) - Len(got)
       IN  conn' = [conn EXCEPT ![c].got = got,
                                ![c].st = IF bytesToRead > 0 THEN "running" ELSE "done"]
    /\ UNCHANGED <<held, queue, nonPoolVars>>

\* the client goes away mid-stream: out.write throws, catch (Exception e)
\* prints it, finally closes the socket
Disconnect(c) ==
    /\ conn[c].st = "running"
    /\ conn' = [conn EXCEPT ![c].st = "closed"]
    /\ UNCHANGED <<held, queue, nonPoolVars>>

\* a stalled client closes its connection at last: readLine returns null or
\* the write throws, and the handler ends
StalledEnds ==
    /\ held > 0
    /\ held' = held - 1
    /\ UNCHANGED <<queue, conn, nonPoolVars>>

InitPool ==
    /\ TransferIdle
    /\ PathIdle
    /\ DrivesIdle
    /\ RangeIdle
    /\ ExtIdle
    /\ SvcIdle

NextPool ==
    \/ \E c \in Conns, w \in Windows : Accept(c, w)
    \/ AcceptStalled
    \/ Take
    \/ \E c \in Conns : SendByte(c)
    \/ \E c \in Conns : Disconnect(c)
    \/ StalledEnds

SpecPool == InitPool /\ [][NextPool]_vars

\* C31: a client that disconnects or stalls ends or delays only its own
\* handler: a request that has been served holds exactly the bytes of its
\* own window, and a request that waits for a worker never waits while every
\* worker of the pool is blocked on a stalled client.
C31_StallDelaysOnlyItself ==
    \A c \in Conns :
        /\ conn[c].st = "done" => conn[c].got = Window(c)
        /\ conn[c].st = "queued" => held < PoolSize

(***************************************************************************)
(* The global uploadProgress listener and the uploadCallbacks map.  Each   *)
(* task is one streamUploadFile of a request of its own; the requests run  *)
(* at the same time.  An event is sent by the plug-in while the upload     *)
(* streams and is handled by the listener some time later.                 *)
(***************************************************************************)
\* uploadCallbacks[uploadId] = (info) => { ... }; client.streamUploadFile(..., uploadId)
Register(t) ==
    /\ upl[t] = "idle"
    /\ uploadCallbacks' = uploadCallbacks \cup {t}
    /\ upl' = [upl EXCEPT ![t] = "streaming"]
    /\ UNCHANGED <<bridge, calls, nonCbVars>>

\* writeTo: if (callbackId != null) ret.put("id", callbackId);
\* notifyListeners("uploadProgress", ret)
Emit(t) ==
    /\ upl[t] = "streaming"
    /\ Len(bridge) < MaxEvents
    /\ bridge' = Append(bridge, t)
    /\ UNCHANGED <<uploadCallbacks, upl, calls, nonCbVars>>

\* call.resolve() / call.reject(): the upload has ended
Settle(t) ==
    /\ upl[t] = "streaming"
    /\ upl' = [upl EXCEPT ![t] = "settled"]
    /\ UNCHANGED <<uploadCallbacks, bridge, calls, nonCbVars>>

\* finally { delete uploadCallbacks[uploadId] }
Unregister(t) ==
    /\ upl[t] = "settled"
    /\ uploadCallbacks' = uploadCallbacks \ {t}
    /\ upl' = [upl EXCEPT ![t] = "ended"]
    /\ UNCHANGED <<bridge, calls, nonCbVars>>

\* the listener: if (id && uploadCallbacks[id]) uploadCallbacks[id](info)
\* else Object.values(uploadCallbacks).forEach(cb => cb(info))
Dispatch(id) == IF id \in uploadCallbacks THEN { <<id, id>> }
                ELSE { <<cb, id>> : cb \in uploadCallbacks }

Deliver ==
    /\ bridge # <<>>
    /\ calls' = calls \cup Dispatch(Head(bridge))
    /\ bridge' = Tail(bridge)
    /\ UNCHANGED <<uploadCallbacks, upl, nonCbVars>>

InitEvents ==
    /\ TransferIdle
    /\ PathIdle
    /\ DrivesIdle
    /\ RangeIdle
    /\ ExtIdle
    /\ SvcIdle

NextEvents ==
    \/ \E t \in Tasks : Register(t)
    \/ \E t \in Tasks : Emit(t)
    \/ \E t \in Tasks : Settle(t)
    \/ \E t \in Tasks : Unregister(t)
    \/ Deliver

SpecEvents == InitEvents /\ [][NextEvents]_vars

\* C32: an uploadProgress event with id X is handed to the callback
\* registered for X only: no callback is ever invoked with the event of
\* another task, also when the event arrives after X was unregistered.
C32_EventsReachOwnCallback == \A call \in calls : call[1] = call[2]

(***************************************************************************)
(* Claims on the transfer engine: what a Move deletes, the staging file,   *)
(* the completion callback.                                                *)
(***************************************************************************)
\* the files at or below a node of the request
FilesBelow(n) == IF n \in TopItems /\ isDir[n] THEN ChildrenOf(n) ELSE {n}

\* C33: in Move mode NativeAPI.crossDriveTransfer deletes a source file or
\* directory only when every file at or below it has been written completely
\* at the destination; a directory whose listing failed is not deleted.
C33_DeleteOnlyAfterWritten ==
    kind = "transfer" =>
        \A n \in Nodes : ~srcExists[n] => \A f \in FilesBelow(n) : dst[f] = ChunksPerFile

\* C34: once a WebDAV -> WebDAV item has ended (done, failed in either leg,
\* or cancelled between the legs), its staging file is no longer in the
\* temp directory.
C34_StagingRemoved ==
    (kind = "transfer" /\ ~srcLocal /\ ~dstLocal) =>
        \A n \in Nodes : outcome[n] \in Terminal => tmp[n] = Absent

(***************************************************************************)
(* WebDavPlugin.activeTransfers and the foreground service, with two       *)
(* requests (crossDriveTransfer or uploadFiles) running at the same time.  *)
(***************************************************************************)
\* startTransfer: activeTransfers.getAndIncrement(); if (count == 0) the
\* service is started with ACTION_START
startTransfer ==
    /\ activeTransfers' = activeTransfers + 1
    /\ service' = IF activeTransfers = 0 THEN TRUE ELSE service

\* endTransfer: activeTransfers.decrementAndGet(); if (count <= 0) set(0) and
\* the service is sent ACTION_STOP
endTransfer ==
    /\ activeTransfers' = IF activeTransfers - 1 <= 0 THEN 0 ELSE activeTransfers - 1
    /\ service' = IF activeTransfers - 1 <= 0 THEN FALSE ELSE service

\* the head of the request: await WebDavNative.startBackgroundWork()
StartBackgroundWork(r) ==
    /\ req[r].pc = "idle"
    /\ startTransfer
    /\ req' = [req EXCEPT ![r].pc = "loop"]
    /\ UNCHANGED nonFgVars

\* WebDavPlugin.upload / download is entered for the next file
NativeBegin(r) ==
    /\ req[r].pc = "loop"
    /\ req[r].ops < MaxOps
    /\ startTransfer
    /\ req' = [req EXCEPT ![r].pc = "streaming", ![r].ops = req[r].ops + 1]
    /\ UNCHANGED nonFgVars

\* its finally: activeCalls.remove(id); endTransfer()
NativeEnd(r) ==
    /\ req[r].pc = "streaming"
    /\ endTransfer
    /\ req' = [req EXCEPT ![r].pc = "loop"]
    /\ UNCHANGED nonFgVars

\* the finally of the request: await WebDavNative.stopBackgroundWork(), which
\* does activeTransfers.set(0) and sends ACTION_STOP
StopBackgroundWork(r) ==
    /\ req[r].pc = "loop"
    /\ activeTransfers' = 0
    /\ service' = FALSE
    /\ req' = [req EXCEPT ![r].pc = "ended"]
    /\ UNCHANGED nonFgVars

InitService ==
    /\ TransferIdle
    /\ PathIdle
    /\ DrivesIdle
    /\ RangeIdle
    /\ ExtIdle
    /\ SvcIdle

NextService ==
    \/ \E r \in Requests : StartBackgroundWork(r)
    \/ \E r \in Requests : NativeBegin(r)
    \/ \E r \in Requests : NativeEnd(r)
    \/ \E r \in Requests : StopBackgroundWork(r)

SpecService == InitService /\ [][NextService]_vars

InProgress == { r \in Requests : req[r].pc = "streaming" }

\* C35: with two requests running at the same time, the foreground service
\* runs whenever an upload or download is in progress, and activeTransfers
\* is never below the number of uploads and downloads in progress.
C35_ServiceCoversTransfers ==
    /\ InProgress # {} => service
    /\ activeTransfers >= Cardinality(InProgress)

(***************************************************************************)
(* The file endpoints of the server and the drive they act on.  The        *)
(* registry holds the local drive and one WebDAV drive, which DELETE       *)
(* /api/drives/:id can remove; the WebDAV server keeps its files then.     *)
(***************************************************************************)
RemoteDrive ==
    [id |-> RemoteId, name |-> "n1", type |-> "webdav", url |-> "u1", username |-> "a",
     password |-> Cipher(KeyOf("server"), RemoteId, "p1"), quota |-> Undef]

FileAnswer(op, driveId, name, status, on, after) ==
    /\ store' = after
    /\ fileReq' = [op |-> op, drive |-> driveId, name |-> name,
                   known |-> driveId \in Ids(drives), status |-> status,
                   on |-> on, changed |-> after # store]

\* POST /api/delete: fs.remove(resolveSafePath(itemPath)) on the local
\* drive, client.deleteFile(item) on a WebDAV drive
DeleteOnDrive(driveId, name) ==
    /\ platform = "server"
    /\ LET config == getDriveConfig(drives, driveId)
       IN  FileAnswer("delete", driveId, name, 200, config.id,
                      [store EXCEPT ![config.id] = store[config.id] \ {name}])
    /\ UNCHANGED <<tempDir, drvVars, nonFileVars>>

\* POST /api/mkdir: fs.ensureDir / client.createDirectory
MkdirOnDrive(driveId, name) ==
    /\ platform = "server"
    /\ LET config == getDriveConfig(drives, driveId)
       IN  FileAnswer("mkdir", driveId, name, 200, config.id,
                      [store EXCEPT ![config.id] = store[config.id] \cup {name}])
    /\ UNCHANGED <<tempDir, drvVars, nonFileVars>>

\* multer.diskStorage destination: the local path for drive 'local',
\* os.tmpdir() for every other id
SavedByMulter(driveId) == IF driveId = LocalId THEN "drive" ELSE "temp"

\* POST /api/upload of one file.  multer has written the file when the
\* handler runs; the handler looks the drive up, puts the file to a WebDAV
\* drive (finally: fs.remove(file.path)) or leaves it where multer saved it,
\* and answers; on an error the catch removes the temporary files
UploadToDrive(driveId, name, putOk) ==
    /\ platform = "server"
    /\ LET config == getDriveConfig(drives, driveId)
           saved == IF SavedByMulter(driveId) = "drive"
                      THEN [store EXCEPT ![LocalId] = store[LocalId] \cup {name}]
                      ELSE store
           temp == IF SavedByMulter(driveId) = "temp" THEN tempDir \cup {name} ELSE tempDir
       IN  IF config.type # "local"
             THEN /\ tempDir' = temp \ {name}
                  /\ IF putOk
                       THEN FileAnswer("upload", driveId, name, 200, config.id,
                                       [saved EXCEPT ![config.id] = saved[config.id] \cup {name}])
                       ELSE FileAnswer("upload", driveId, name, 500, config.id, saved)
             ELSE /\ tempDir' = temp
                  /\ FileAnswer("upload", driveId, name, 200, config.id, saved)
    /\ UNCHANGED <<drvVars, nonFileVars>>

\* the server with drives.json holding the local drive and the WebDAV drive
InitFiles ==
    /\ TransferIdle
    /\ PathIdle
    /\ RangeIdle
    /\ ExtIdle
    /\ SvcIdle
    /\ platform = "server"
    /\ drives = << LocalDrive("server"), RemoteDrive >>
    /\ slots = [s \in Slots |-> IdleSlot]
    /\ nextId = RemoteId + 1
    /\ started = 0
    /\ resp = NoResp
    /\ accepted = {RemoteId}
    /\ removed = {}

NextFiles ==
    \/ \E s \in Slots : DeleteDrive(s, RemoteId)
    \/ \E s \in Slots : WriteDrives(s)
    \/ \E d \in StoreIds, f \in FileNames : DeleteOnDrive(d, f)
    \/ \E d \in StoreIds, f \in FileNames : MkdirOnDrive(d, f)
    \/ \E d \in StoreIds, f \in FileNames, putOk \in BOOLEAN : UploadToDrive(d, f, putOk)

SpecFiles == InitFiles /\ [][NextFiles]_vars

\* C36: a mutating request addressed to a drive id that is not in the
\* registry creates, changes or deletes no file on any drive.
C36_UnknownDriveTouchesNothing ==
    (fileReq.op # "none" /\ ~fileReq.known) => ~fileReq.changed

\* C37: when POST /api/upload answers success the file is stored on the
\* drive named in the request, and when the request has ended none of its
\* temporary files is left in the temp directory, whatever the drive id.
C37_UploadStoredAndTempRemoved ==
    fileReq.op = "upload" =>
        /\ fileReq.status = 200 => fileReq.name \in store[fileReq.drive]
        /\ fileReq.name \notin tempDir

(***************************************************************************)
(* LocalFileServer.handleClient, PUT: the body is read from the            *)
(* connection and written to the file byte by byte.  fileLength is the     *)
(* file the request path names.                                            *)
(***************************************************************************)
\* while (bytesLeft > 0 || contentLength == -1)
MoreToRead == put.bytesLeft > 0 \/ put.contentLength = NoLength

\* new FileOutputStream(file) creates the file or truncates it;
\* long bytesLeft = contentLength
PutOpen(contentLength) ==
    /\ put.pc # "reading"
    /\ put' = [pc |-> "reading", contentLength |-> contentLength,
               bytesLeft |-> contentLength, status |-> 0, ended |-> "none"]
    /\ fileLength' = 0
    /\ UNCHANGED nonPutVars

\* read = in.read(buffer, 0, maxRead); fos.write(buffer, 0, read);
\* if (contentLength != -1) bytesLeft -= read
PutRead ==
    /\ put.pc = "reading"
    /\ MoreToRead
    /\ fileLength < MaxBody
    /\ fileLength' = fileLength + 1
    /\ put' = [put EXCEPT !.bytesLeft =
                  IF put.contentLength # NoLength THEN put.bytesLeft - 1 ELSE put.bytesLeft]
    /\ UNCHANGED nonPutVars

\* the loop is left with bytesLeft = 0: success = true, 201 Created
PutComplete ==
    /\ put.pc = "reading"
    /\ ~MoreToRead
    /\ put' = [put EXCEPT !.pc = "answered", !.status = 201, !.ended = "complete"]
    /\ UNCHANGED <<fileLength, nonPutVars>>

\* the client has closed its side: in.read returns -1, if (read == -1) break;
\* the statement after the loop is success = true, and the answer is 201
PutEndOfStream ==
    /\ put.pc = "reading"
    /\ MoreToRead
    /\ put' = [put EXCEPT !.pc = "answered", !.status = 201, !.ended = "eof"]
    /\ UNCHANGED <<fileLength, nonPutVars>>

\* the connection is reset: in.read throws, catch (Exception e); finally
\* { if (!success && file.exists()) file.delete() }; 500
PutException ==
    /\ put.pc = "reading"
    /\ MoreToRead
    /\ put' = [put EXCEPT !.pc = "answered", !.status = 500, !.ended = "reset"]
    /\ fileLength' = Absent
    /\ UNCHANGED nonPutVars

InitPut ==
    /\ TransferIdle
    /\ PathIdle
    /\ DrivesIdle
    /\ ExtIdle
    /\ SvcIdle
    /\ fileLength \in {Absent} \cup (0 .. MaxFileLen)
    /\ rangeResp = NoRange

NextPut ==
    \/ \E contentLength \in {NoLength} \cup (0 .. MaxBody) : PutOpen(contentLength)
    \/ PutRead
    \/ PutComplete
    \/ PutEndOfStream
    \/ PutException

SpecPut == InitPut /\ [][NextPut]_vars

\* C38: when the connection of a PUT ends before Content-Length bytes of the
\* body have arrived, the partial file is deleted and the answer is not
\* 201; 201 is answered only when the file holds exactly Content-Length
\* bytes.
C38_ShortBodyNotCreated ==
    (put.pc = "answered" /\ put.contentLength # NoLength) =>
        /\ put.bytesLeft > 0 => fileLength = Absent /\ put.status # 201
        /\ put.status = 201 => fileLength = put.contentLength

\* C39: onItemComplete is invoked at most once for a requested top-level
\* item, only after the item has been transferred (and, in Move mode, its
\* source deleted), and never for an item that was skipped, cancelled or
\* failed; it is not invoked for anything but a requested item.
C39_CompletionOnlyOnSuccess ==
    Native =>
        /\ \A n \in Nodes \ TopItems : completions[n] = 0
        /\ \A t \in TopItems :
              /\ completions[t] <= 1
              /\ completions[t] = 1 =>
                    /\ outcome[t] = "Done"
                    /\ \A f \in FilesBelow(t) : dst[f] = ChunksPerFile
                    /\ isMove => ~srcExists[t]
                    /\ t \notin cancelled

====
